---- MODULE Spec2Model ----
(***************************************************************************)
(* Model of the Multi_strategy_trading decision/simulation engine:         *)
(*   backtesting/backtest_engine.py  BacktestEngine (run_backtest loop)    *)
(*   trading/position_sizer.py       EnhancedPositionSizer                 *)
(*   trading/risk_manager.py         EnhancedRiskManager                   *)
(*   enhanced_main.py                EnhancedTradingBot (live entry path)  *)
(*                                                                         *)
(* Python floats are modelled as exact rationals [n |-> num, d |-> den]    *)
(* in lowest terms with d > 0.  A division by zero follows numpy's float64 *)
(* semantics (prices come out of a pandas DataFrame): x/0 is +-inf,        *)
(* written [n |-> +-1, d |-> 0], and 0/0 is NaN, written [n |-> 0,         *)
(* d |-> 0].  Timestamps are minutes.                                      *)
(***************************************************************************)
EXTENDS Integers, Sequences, FiniteSets, TLC

(***************************************************************************)
(* Bounds of the model (not program constants).                            *)
(***************************************************************************)
\* number of bars after the warm-up that a run processes, at most
MaxBars == 3
\* number of direct method calls made on the engine in SpecApi, at most
MaxCalls == 3
\* number of method calls made on the risk manager in SpecRisk, at most
MaxRiskCalls == 4
\* number of rows of a DataFrame handed to an indicator in SpecIndicator, at most
MaxRows == 4

(***************************************************************************)
(* Rational arithmetic (Python float arithmetic, exact).                   *)
(***************************************************************************)
Abs(i) == IF i < 0 THEN -i ELSE i

Sign(i) == IF i < 0 THEN -1 ELSE IF i > 0 THEN 1 ELSE 0

IMin(i, j) == IF j < i THEN j ELSE i

IMax(i, j) == IF j > i THEN j ELSE i

RECURSIVE GCD(_, _)
GCD(a, b) == IF b = 0 THEN a ELSE GCD(b, a % b)

\* n/d divided through by g, with the sign in the numerator
Reduced(n, d, g) ==
    IF d < 0 THEN [n |-> -(n \div g), d |-> -(d \div g)]
             ELSE [n |-> n \div g, d |-> d \div g]

\* the rational n/d in lowest terms; d = 0 gives inf, -inf or NaN
Q(n, d) ==
    IF d = 0 THEN [n |-> Sign(n), d |-> 0]
    ELSE Reduced(n, d, GCD(Abs(n), Abs(d)))

QI(i) == [n |-> i, d |-> 1]

IsFinite(a) == a.d # 0

IsNaN(a) == a.d = 0 /\ a.n = 0

\* a + b over the common denominator (a.d / g) * b.d, g the gcd of a.d and b.d
QAddOver(a, b, g) ==
    Q(a.n * (b.d \div g) + b.n * (a.d \div g), (a.d \div g) * b.d)

\* inf + finite = inf, inf - inf = NaN, NaN + x = NaN
QAdd(a, b) ==
    IF a.d = 0 \/ b.d = 0
    THEN IF a.d = 0 /\ b.d = 0
         THEN (IF a.n = b.n THEN a ELSE [n |-> 0, d |-> 0])
         ELSE (IF a.d = 0 THEN a ELSE b)
    ELSE QAddOver(a, b, GCD(a.d, b.d))

QNeg(a) == [n |-> -a.n, d |-> a.d]

QSub(a, b) == QAdd(a, QNeg(b))

\* a gcd to divide by: 1 where GCD gives 0
GCD1(i, j) == IMax(1, GCD(i, j))

\* a * b, a.n and b.d divided by h1, b.n and a.d by h2, ahead of the products
QMulOver(a, b, h1, h2) ==
    Q((a.n \div h1) * (b.n \div h2), (a.d \div h2) * (b.d \div h1))

QMul(a, b) == QMulOver(a, b, GCD1(Abs(a.n), b.d), GCD1(Abs(b.n), a.d))

\* float division; a zero divisor yields inf / NaN as numpy does
QDiv(a, b) ==
    IF b.n = 0 THEN (IF b.d = 0 THEN [n |-> 0, d |-> 0] ELSE [n |-> Sign(a.n), d |-> 0])
    ELSE QMul(a, [n |-> Sign(b.n) * b.d, d |-> Abs(b.n)])

\* every comparison with NaN is False
QLt(a, b) == a.n * b.d < b.n * a.d

QLe(a, b) == ~IsNaN(a) /\ ~IsNaN(b) /\ a.n * b.d <= b.n * a.d

QGt(a, b) == QLt(b, a)

QGe(a, b) == QLe(b, a)

QMin(a, b) == IF QLt(b, a) THEN b ELSE a

QMax(a, b) == IF QGt(b, a) THEN b ELSE a

QAbs(a) == [n |-> Abs(a.n), d |-> a.d]

\* Python int(x): truncation toward zero
QInt(a) == Sign(a.n) * (Abs(a.n) \div a.d)

RECURSIVE QSum(_)
QSum(s) == IF s = <<>> THEN QI(0) ELSE QAdd(Head(s), QSum(Tail(s)))


(***************************************************************************)
(* Configuration: the 'balanced' profile of config/enhanced_settings.py,   *)
(* the default of the command line and of EnhancedTradingBot.              *)
(***************************************************************************)
account_balance == QI(20000)

max_risk_per_trade == Q(15, 1000)

max_daily_loss == Q(4, 100)

max_drawdown_limit == Q(8, 100)

max_position_value == Q(15, 100)

max_trades_per_day == 3

base_position_size == Q(6, 10)

confidence_multiplier == TRUE

volatility_adjustment == TRUE

stop_loss_atr_multiple == Q(25, 10)

\* min_hold_time_hours, in minutes
min_hold_time == 2 * 60

signal_reversal_threshold == Q(65, 100)

\* the instruments the sizer's lookup tables name, and one they do not
Symbols == {"NIFTYBEES", "JUNIORBEES", "BANKBEES", "OTHER"}

(***************************************************************************)
(* trading/position_sizer.py                                               *)
(***************************************************************************)
\* scaling_factors[symbol]['atr_ratio']; every entry has
\* typical_nifty_price 25000
atr_ratio(symbol) ==
    CASE symbol = "NIFTYBEES"  -> Q(8, 10)
      [] symbol = "JUNIORBEES" -> Q(9, 10)
      [] symbol = "BANKBEES"   -> Q(11, 10)

scale_nifty_atr_to_instrument(nifty_atr, current_price, symbol) ==
    IF symbol \in {"NIFTYBEES", "JUNIORBEES", "BANKBEES"}
    THEN LET price_ratio == QDiv(current_price, QI(25000))
             scaled_atr  == QMul(QMul(nifty_atr, price_ratio), atr_ratio(symbol))
             min_atr     == QMul(current_price, Q(1, 100))
             max_atr     == QMul(current_price, Q(8, 100))
         IN  QMax(min_atr, QMin(scaled_atr, max_atr))
    ELSE LET estimated_ratio == QDiv(current_price, QI(25000))
             scaled_atr      == QMul(nifty_atr, estimated_ratio)
             min_atr         == QMul(current_price, Q(15, 1000))
             max_atr         == QMul(current_price, Q(6, 100))
         IN  QMax(min_atr, QMin(scaled_atr, max_atr))

get_mis_leverage(symbol) ==
    CASE symbol = "NIFTYBEES"  -> QI(4)
      [] symbol = "JUNIORBEES" -> QI(4)
      [] symbol = "BANKBEES"   -> Q(35, 10)
      [] OTHER                 -> QI(3)

\* min(min_quantity, max_affordable, 1) at the return of the function
calculate_minimum_quantity(balance, current_price, leverage) ==
    LET min_trade_value  == QMax(QMul(balance, Q(3, 1000)), QI(500))
        min_quantity     == IMax(1, QInt(QDiv(min_trade_value, current_price)))
        margin_per_share == QDiv(current_price, leverage)
        max_affordable   == QInt(QDiv(QMul(balance, Q(85, 100)), margin_per_share))
    IN  IMin(IMin(min_quantity, max_affordable), 1)

\* a forced share that keeps the margin computed before it
SizingDetailsStaleMargin(balance, current_price, scaled_atr, mis_leverage, stop_distance, margin_per_share, quantity) ==
    LET final_quantity  == IF quantity < 1 THEN 1 ELSE quantity
        margin_required == QMul(QI(quantity), margin_per_share)
        actual_risk_amount == QMul(QI(final_quantity), stop_distance)
    IN  [quantity           |-> final_quantity,
         margin_required    |-> margin_required,
         trade_value        |-> QMul(QI(final_quantity), current_price),
         risk_percentage    |-> QMul(QDiv(actual_risk_amount, balance), QI(100)),
         leverage_used      |-> mis_leverage,
         stop_loss_distance |-> stop_distance,
         scaled_atr         |-> scaled_atr]

\* the end of calculate_position_size, from 'Ensure we still have at least 1
\* share'; quantity is final_quantity after the 'Final safety check'
SizingDetails(balance, current_price, scaled_atr, mis_leverage, stop_distance, margin_per_share, quantity) ==
    LET final_quantity  == IF quantity < 1 THEN 1 ELSE quantity
        margin_required == IF quantity < 1
                           THEN margin_per_share
                           ELSE QMul(QI(quantity), margin_per_share)
        actual_risk_amount == QMul(QI(final_quantity), stop_distance)
    IN  [quantity           |-> final_quantity,
         margin_required    |-> margin_required,
         trade_value        |-> QMul(QI(final_quantity), current_price),
         risk_percentage    |-> QMul(QDiv(actual_risk_amount, balance), QI(100)),
         leverage_used      |-> mis_leverage,
         stop_loss_distance |-> stop_distance,
         scaled_atr         |-> scaled_atr]

\* a sizer that stops at the smaller of its two constraints: no minimum
\* quantity, no forced share
SizeScaledNoMinimum(balance, current_price, signal_confidence, scaled_atr, mis_leverage) ==
    LET base_capital      == QMul(balance, base_position_size)
        confidence_factor == QAdd(Q(5, 10), QMul(signal_confidence, Q(5, 10)))
        adjusted_capital1 == IF confidence_multiplier
                             THEN QMul(base_capital, confidence_factor)
                             ELSE base_capital
        adjust            == volatility_adjustment /\ QGt(scaled_atr, QI(0))
        normal_atr        == QMul(current_price, Q(2, 100))
        volatility_factor == QMax(Q(3, 10), QMin(QI(1), QDiv(normal_atr, scaled_atr)))
        adjusted_capital  == IF adjust
                             THEN QMul(adjusted_capital1, volatility_factor)
                             ELSE adjusted_capital1
        effective_capital == QMul(adjusted_capital, mis_leverage)
        stop_distance     == QMul(scaled_atr, stop_loss_atr_multiple)
        max_risk_amount   == QMul(balance, max_risk_per_trade)
        max_shares_by_risk == IF QGt(stop_distance, QI(0))
                              THEN QInt(QDiv(max_risk_amount, stop_distance))
                              ELSE 1
        max_shares_by_capital == QInt(QDiv(effective_capital, current_price))
        base_quantity     == IMin(max_shares_by_capital, max_shares_by_risk)
        min_quantity      == calculate_minimum_quantity(balance, current_price, mis_leverage)
        final_quantity    == IMax(min_quantity, base_quantity)
        margin_per_share  == QDiv(current_price, mis_leverage)
        max_affordable_quantity ==
            QInt(QDiv(QMul(balance, Q(9, 10)), margin_per_share))
    IN  [SizingDetails(balance, current_price, scaled_atr, mis_leverage,
                       stop_distance, margin_per_share,
                       IMin(base_quantity, max_affordable_quantity))
            EXCEPT !.quantity = IMin(base_quantity, max_affordable_quantity)]

\* calculate_position_size from 'Base capital allocation' on
SizeScaled(balance, current_price, signal_confidence, scaled_atr, mis_leverage) ==
    LET base_capital      == QMul(balance, base_position_size)
        confidence_factor == QAdd(Q(5, 10), QMul(signal_confidence, Q(5, 10)))
        adjusted_capital1 == IF confidence_multiplier
                             THEN QMul(base_capital, confidence_factor)
                             ELSE base_capital
        adjust            == volatility_adjustment /\ QGt(scaled_atr, QI(0))
        normal_atr        == QMul(current_price, Q(2, 100))
        volatility_factor == QMax(Q(3, 10), QMin(QI(1), QDiv(normal_atr, scaled_atr)))
        adjusted_capital  == IF adjust
                             THEN QMul(adjusted_capital1, volatility_factor)
                             ELSE adjusted_capital1
        effective_capital == QMul(adjusted_capital, mis_leverage)
        stop_distance     == QMul(scaled_atr, stop_loss_atr_multiple)
        max_risk_amount   == QMul(balance, max_risk_per_trade)
        max_shares_by_risk == IF QGt(stop_distance, QI(0))
                              THEN QInt(QDiv(max_risk_amount, stop_distance))
                              ELSE 1
        max_shares_by_capital == QInt(QDiv(effective_capital, current_price))
        base_quantity     == IMin(max_shares_by_capital, max_shares_by_risk)
        min_quantity      == calculate_minimum_quantity(balance, current_price, mis_leverage)
        final_quantity    == IMax(min_quantity, base_quantity)
        margin_per_share  == QDiv(current_price, mis_leverage)
        max_affordable_quantity ==
            QInt(QDiv(QMul(balance, Q(9, 10)), margin_per_share))
    IN  SizingDetails(balance, current_price, scaled_atr, mis_leverage,
                      stop_distance, margin_per_share,
                      IMin(final_quantity, max_affordable_quantity))

calculate_position_size(balance_in, price_in, atr_value, confidence_in, symbol) ==
    SizeScaled(QMax(balance_in, QI(1000)),
               QMax(price_in, QI(1)),
               QMax(confidence_in, Q(3, 10)),
               scale_nifty_atr_to_instrument(atr_value, QMax(price_in, QI(1)), symbol),
               get_mis_leverage(symbol))


(***************************************************************************)
(* State.                                                                  *)
(***************************************************************************)
VARIABLES
    \* BacktestEngine
    current_capital,    \* self.current_capital (cash)
    positions,          \* self.positions, a list of position dicts
    trades,             \* self.trades, a list of Trade records
    equity_curve,       \* self.equity_curve
    results,            \* the BacktestResults run_backtest returns
    \* EnhancedRiskManager
    daily_pnl,
    max_portfolio_value,
    current_drawdown,
    trade_count_today,
    risk_events,        \* self.risk_events
    \* run_backtest's position in its code, and its argument
    pc,                 \* "idle", "loop", "exit", "signal", "results", "done"
    data,               \* the bars of the DataFrame after the warm-up, read so far
    consulted,          \* check_exit_conditions called strategy.get_signal on this bar
    op,                 \* the engine method the last step invoked
    opened,             \* number of positions appended to self.positions in this run
    \* a second run on the same engine instance
    run,                \* 1 or 2
    start,              \* the state a run reads, as it is right after the 'Reset state' block
    prev,               \* what the first run was given and what it left
    \* a client calling the engine's methods itself
    calls,              \* the calls made so far, with their arguments
    returned,           \* what the last of them returned
    \* EnhancedTradingBot
    current_position,   \* self.current_position
    orders,             \* the orders handed to OrderExecutor.place_order
    daily_trades,       \* self.daily_trades
    total_pnl,          \* self.total_pnl
    is_running,         \* self.is_running
    clock,              \* datetime.now() of the live session, in minutes
    frame               \* the locals of the bot method the main thread is inside

engineVars == <<current_capital, positions, trades, equity_curve, results>>

riskVars == <<daily_pnl, max_portfolio_value, current_drawdown, trade_count_today,
              risk_events>>

runVars == <<pc, data, consulted, op, opened, run, start, prev>>

botVars == <<daily_trades, total_pnl, is_running, clock, frame>>

liveVars == <<current_position, orders, botVars>>

callVars == <<calls, returned>>

vars == <<engineVars, riskVars, runVars, callVars, liveVars>>

\* rows of warm-up before the first processed bar: range(50, len(data))
WARMUP == 50

\* 4 hours max in check_exit_conditions, in minutes
TIME_LIMIT == 240

(***************************************************************************)
(* trading/risk_manager.py                                                 *)
(***************************************************************************)
Recommendation(risk_score) ==
    IF risk_score >= 5 THEN "REJECT"
    ELSE IF risk_score >= 3 THEN "REDUCE_SIZE"
    ELSE IF risk_score >= 1 THEN "PROCEED_CAUTION"
    ELSE "PROCEED"

RiskLevel(risk_score) ==
    IF risk_score >= 5 THEN "HIGH"
    ELSE IF risk_score >= 3 THEN "MEDIUM"
    ELSE IF risk_score >= 1 THEN "LOW"
    ELSE "MINIMAL"

\* the end of assess_trade_risk, from 'Risk level determination'
RiskAssessment(quantity, balance, risk_per_share, risk_percentage, risk_score) ==
    LET recommendation  == Recommendation(risk_score)
        max_safe_risk   == QMul(balance, max_risk_per_trade)
        safe_quantity0  == IF QGt(risk_per_share, QI(0))
                           THEN QInt(QDiv(max_safe_risk, risk_per_share))
                           ELSE 1
        safe_quantity   == IF recommendation = "REDUCE_SIZE"
                           THEN IMax(1, IMin(safe_quantity0,
                                             QInt(QMul(QI(quantity), Q(5, 10)))))
                           ELSE quantity
    IN  [risk_level         |-> RiskLevel(risk_score),
         risk_score         |-> risk_score,
         risk_percentage    |-> risk_percentage,
         recommendation     |-> recommendation,
         suggested_quantity |-> safe_quantity]

\* a score in which the trade-count rule assigns its 2 points instead of
\* adding them
RulePointsCountAssigns(risk_pct, oversized, daily_loss, drawdown, trade_count) ==
    IF trade_count
    THEN 2
    ELSE (IF risk_pct THEN 3 ELSE 0) + (IF oversized THEN 2 ELSE 0)
            + (IF daily_loss THEN 3 ELSE 0) + (IF drawdown THEN 2 ELSE 0)

\* risk_score after the five checks, given which of them are breached
RulePoints(risk_pct, oversized, daily_loss, drawdown, trade_count) ==
    (IF risk_pct THEN 3 ELSE 0) + (IF oversized THEN 2 ELSE 0)
        + (IF daily_loss THEN 3 ELSE 0) + (IF drawdown THEN 2 ELSE 0)
        + (IF trade_count THEN 2 ELSE 0)

\* the five checks of assess_trade_risk
RiskScore(entry_price, quantity, balance, total_risk, risk_percentage) ==
    LET max_position_size == QMul(balance, max_position_value)
        position_value  == QMul(entry_price, QI(quantity))
        potential_daily_loss ==
            IF QGt(balance, QI(0))
            THEN QDiv(QAbs(QSub(daily_pnl, total_risk)), balance)
            ELSE QI(0)
    IN  RulePoints(QGt(risk_percentage, max_risk_per_trade),
                   QGt(position_value, max_position_size),
                   QGt(potential_daily_loss, max_daily_loss),
                   QGt(current_drawdown, QMul(max_drawdown_limit, Q(8, 10))),
                   trade_count_today >= max_trades_per_day)

\* assess_trade_risk once the trade's risk is known
AssessRisk(entry_price, quantity, balance, risk_per_share, total_risk, risk_percentage) ==
    RiskAssessment(quantity, balance, risk_per_share, risk_percentage,
                   RiskScore(entry_price, quantity, balance, total_risk,
                             risk_percentage))

assess_trade_risk(entry_price, quantity, stop_loss, balance) ==
    LET risk_per_share  == QAbs(QSub(entry_price, stop_loss))
        total_risk      == QMul(risk_per_share, QI(quantity))
        risk_percentage == IF QGt(balance, QI(0)) THEN QDiv(total_risk, balance) ELSE QI(0)
    IN  AssessRisk(entry_price, quantity, balance, risk_per_share, total_risk,
                   risk_percentage)


update_daily_pnl(pnl_change) ==
    /\ daily_pnl' = QAdd(daily_pnl, pnl_change)
    /\ UNCHANGED <<max_portfolio_value, current_drawdown, trade_count_today,
                   risk_events>>

update_drawdown(current_portfolio_value) ==
    /\ IF QGt(current_portfolio_value, max_portfolio_value)
       THEN /\ max_portfolio_value' = current_portfolio_value
            /\ current_drawdown' = QI(0)
       ELSE /\ current_drawdown' =
                   QDiv(QSub(max_portfolio_value, current_portfolio_value),
                        max_portfolio_value)
            /\ UNCHANGED max_portfolio_value
    /\ UNCHANGED <<daily_pnl, trade_count_today, risk_events>>

increment_trade_count ==
    /\ trade_count_today' = trade_count_today + 1
    /\ UNCHANGED <<daily_pnl, max_portfolio_value, current_drawdown, risk_events>>

\* a daily reset that also forgets the drawdown
reset_daily_counters_and_drawdown ==
    /\ daily_pnl' = QI(0)
    /\ trade_count_today' = 0
    /\ current_drawdown' = QI(0)
    /\ UNCHANGED <<max_portfolio_value, risk_events>>

reset_daily_counters ==
    /\ daily_pnl' = QI(0)
    /\ trade_count_today' = 0
    /\ UNCHANGED <<max_portfolio_value, current_drawdown, risk_events>>

\* the pair should_stop_trading returns, the reason without its figures
should_stop_trading ==
    IF QGt(QAbs(daily_pnl), QMul(max_daily_loss, max_portfolio_value))
    THEN <<TRUE, "Daily loss limit exceeded">>
    ELSE IF QGt(current_drawdown, max_drawdown_limit)
    THEN <<TRUE, "Maximum drawdown exceeded">>
    ELSE IF trade_count_today >= max_trades_per_day
    THEN <<TRUE, "Maximum trades per day reached">>
    ELSE <<FALSE, "">>

\* the timestamp and the details text of the event are left out
log_risk_event(event_type) ==
    /\ risk_events' = Append(risk_events, [event_type |-> event_type,
                                           daily_pnl  |-> daily_pnl,
                                           drawdown   |-> current_drawdown])
    /\ UNCHANGED <<daily_pnl, max_portfolio_value, current_drawdown,
                   trade_count_today>>


(***************************************************************************)
(* backtesting/backtest_engine.py                                          *)
(***************************************************************************)
initial_capital == account_balance

\* the leverage process_entry_signal divides by: the sizer is called without
\* a symbol, so with its default "NIFTYBEES"
SizerDefaultSymbol == "NIFTYBEES"

calculate_unrealized_pnl(current_price) ==
    IF positions = <<>> THEN QI(0)
    ELSE LET position == positions[1]
             quantity == Abs(position.quantity)
         IN  IF position.quantity > 0
             THEN QMul(QSub(current_price, position.entry_price), QI(quantity))
             ELSE QMul(QSub(position.entry_price, current_price), QI(quantity))

calculate_portfolio_value(current_price) ==
    IF positions # <<>>
    THEN QAdd(current_capital, calculate_unrealized_pnl(current_price))
    ELSE current_capital

\* an entry that keeps the sizer's quantity whatever the risk manager suggests
process_entry_signal_full_size(signal, confidence, atr_value, timestamp, price) ==
    \E sizing \in {calculate_position_size(current_capital, price, atr_value,
                                           confidence, SizerDefaultSymbol)} :
    \E stop_loss_price \in {IF signal = "BUY"
                            THEN QSub(price, QMul(atr_value, QI(2)))
                            ELSE QAdd(price, QMul(atr_value, QI(2)))} :
    \E risk_assessment \in {assess_trade_risk(price, sizing.quantity,
                                              stop_loss_price, current_capital)} :
    \E quantity \in {sizing.quantity} :
    \E margin_required \in {QDiv(QMul(QI(quantity), price), sizing.leverage_used)} :
        IF risk_assessment.recommendation = "REJECT"
        THEN UNCHANGED <<positions, current_capital, opened>>
        ELSE IF QGt(margin_required, QMul(current_capital, Q(9, 10)))
        THEN UNCHANGED <<positions, current_capital, opened>>
        ELSE /\ positions' = Append(positions,
                    [entry_time   |-> timestamp,
                     direction    |-> signal,
                     entry_price  |-> price,
                     quantity     |-> IF signal = "BUY" THEN quantity ELSE -quantity,
                     stop_loss    |-> stop_loss_price,
                     take_profit  |-> IF signal = "BUY"
                                      THEN QAdd(price, QMul(atr_value, QI(4)))
                                      ELSE QSub(price, QMul(atr_value, QI(4))),
                     confidence   |-> confidence,
                     atr          |-> atr_value,
                     margin_used  |-> margin_required])
             /\ current_capital' = QSub(current_capital, margin_required)
             /\ opened' = opened + 1

process_entry_signal(signal, confidence, atr_value, timestamp, price) ==
    \E sizing \in {calculate_position_size(current_capital, price, atr_value,
                                           confidence, SizerDefaultSymbol)} :
    \E stop_loss_price \in {IF signal = "BUY"
                            THEN QSub(price, QMul(atr_value, QI(2)))
                            ELSE QAdd(price, QMul(atr_value, QI(2)))} :
    \E risk_assessment \in {assess_trade_risk(price, sizing.quantity,
                                              stop_loss_price, current_capital)} :
    \E quantity \in {IF risk_assessment.recommendation = "REDUCE_SIZE"
                     THEN risk_assessment.suggested_quantity
                     ELSE sizing.quantity} :
    \E margin_required \in {QDiv(QMul(QI(quantity), price), sizing.leverage_used)} :
        IF risk_assessment.recommendation = "REJECT"
        THEN UNCHANGED <<positions, current_capital, opened>>
        ELSE IF QGt(margin_required, QMul(current_capital, Q(9, 10)))
        THEN UNCHANGED <<positions, current_capital, opened>>
        ELSE /\ positions' = Append(positions,
                    [entry_time   |-> timestamp,
                     direction    |-> signal,
                     entry_price  |-> price,
                     quantity     |-> IF signal = "BUY" THEN quantity ELSE -quantity,
                     stop_loss    |-> stop_loss_price,
                     take_profit  |-> IF signal = "BUY"
                                      THEN QAdd(price, QMul(atr_value, QI(4)))
                                      ELSE QSub(price, QMul(atr_value, QI(4))),
                     confidence   |-> confidence,
                     atr          |-> atr_value,
                     margin_used  |-> margin_required])
             /\ current_capital' = QSub(current_capital, margin_required)
             /\ opened' = opened + 1

\* an exit chain that tests the reversal ahead of the take-profit
ExitReasonReversalFirst(position, timestamp, price, data_len, signal) ==
    LET is_long == position.quantity > 0
    IN  IF is_long /\ QLe(price, position.stop_loss) THEN "Stop Loss"
        ELSE IF ~is_long /\ QGe(price, position.stop_loss) THEN "Stop Loss"
        ELSE IF (is_long /\ signal = "SELL") \/ (~is_long /\ signal = "BUY")
             THEN "Signal Reversal"
        ELSE IF is_long /\ QGe(price, position.take_profit) THEN "Take Profit"
        ELSE IF ~is_long /\ QLe(price, position.take_profit) THEN "Take Profit"
        ELSE ""

\* the exit reason check_exit_conditions settles on for positions[0], "" for
\* none; signal is what strategy.get_signal(data) returns on this bar
ExitReason(position, timestamp, price, data_len, signal) ==
    LET is_long == position.quantity > 0
    IN  IF is_long /\ QLe(price, position.stop_loss) THEN "Stop Loss"
        ELSE IF ~is_long /\ QGe(price, position.stop_loss) THEN "Stop Loss"
        ELSE IF is_long /\ QGe(price, position.take_profit) THEN "Take Profit"
        ELSE IF ~is_long /\ QLe(price, position.take_profit) THEN "Take Profit"
        ELSE IF data_len > WARMUP
             THEN IF (is_long /\ signal = "SELL") \/ (~is_long /\ signal = "BUY")
                  THEN "Signal Reversal"
                  ELSE ""
        ELSE IF timestamp - position.entry_time > TIME_LIMIT THEN "Time Limit"
        ELSE ""

\* whether check_exit_conditions reaches its call of strategy.get_signal
ConsultsSignal(position, price, data_len) ==
    LET is_long == position.quantity > 0
    IN  /\ ~(is_long /\ QLe(price, position.stop_loss))
        /\ ~(~is_long /\ QGe(price, position.stop_loss))
        /\ ~(is_long /\ QGe(price, position.take_profit))
        /\ ~(~is_long /\ QLe(price, position.take_profit))
        /\ data_len > WARMUP

\* a close that credits the pnl and keeps the margin it had reserved
close_position_keeps_margin(timestamp, price, reason) ==
    IF positions = <<>>
    THEN UNCHANGED <<positions, current_capital, trades>>
    ELSE \E position \in {Head(positions)} :
         \E quantity \in {Abs(position.quantity)} :
         \E pnl \in {IF position.quantity > 0
                     THEN QMul(QSub(price, position.entry_price), QI(quantity))
                     ELSE QMul(QSub(position.entry_price, price), QI(quantity))} :
         \E pnl_percent \in {QMul(QDiv(pnl, QMul(position.entry_price, QI(quantity))),
                                  QI(100))} :
             /\ positions' = Tail(positions)
             /\ current_capital' = QAdd(current_capital, pnl)
             /\ trades' = Append(trades,
                    [entry_time  |-> position.entry_time,
                     exit_time   |-> timestamp,
                     direction   |-> position.direction,
                     entry_price |-> position.entry_price,
                     exit_price  |-> price,
                     quantity    |-> quantity,
                     pnl         |-> pnl,
                     pnl_percent |-> pnl_percent,
                     stop_loss   |-> position.stop_loss,
                     take_profit |-> position.take_profit,
                     exit_reason |-> reason,
                     confidence  |-> position.confidence,
                     atr         |-> position.atr,
                     duration_minutes |-> timestamp - position.entry_time])

\* a close that records the trade with the timestamp of its entry
close_position_stamps_entry_time(timestamp, price, reason) ==
    IF positions = <<>>
    THEN UNCHANGED <<positions, current_capital, trades>>
    ELSE \E position \in {Head(positions)} :
         \E quantity \in {Abs(position.quantity)} :
         \E pnl \in {IF position.quantity > 0
                     THEN QMul(QSub(price, position.entry_price), QI(quantity))
                     ELSE QMul(QSub(position.entry_price, price), QI(quantity))} :
         \E pnl_percent \in {QMul(QDiv(pnl, QMul(position.entry_price, QI(quantity))),
                                  QI(100))} :
             /\ positions' = Tail(positions)
             /\ current_capital' = QAdd(current_capital, QAdd(position.margin_used, pnl))
             /\ trades' = Append(trades,
                    [entry_time  |-> position.entry_time,
                     exit_time   |-> position.entry_time,
                     direction   |-> position.direction,
                     entry_price |-> position.entry_price,
                     exit_price  |-> price,
                     quantity    |-> quantity,
                     pnl         |-> pnl,
                     pnl_percent |-> pnl_percent,
                     stop_loss   |-> position.stop_loss,
                     take_profit |-> position.take_profit,
                     exit_reason |-> reason,
                     confidence  |-> position.confidence,
                     atr         |-> position.atr,
                     duration_minutes |-> timestamp - position.entry_time])

close_position(timestamp, price, reason) ==
    IF positions = <<>>
    THEN UNCHANGED <<positions, current_capital, trades>>
    ELSE \E position \in {Head(positions)} :
         \E quantity \in {Abs(position.quantity)} :
         \E pnl \in {IF position.quantity > 0
                     THEN QMul(QSub(price, position.entry_price), QI(quantity))
                     ELSE QMul(QSub(position.entry_price, price), QI(quantity))} :
         \E pnl_percent \in {QMul(QDiv(pnl, QMul(position.entry_price, QI(quantity))),
                                  QI(100))} :
             /\ positions' = Tail(positions)
             /\ current_capital' = QAdd(current_capital, QAdd(position.margin_used, pnl))
             /\ trades' = Append(trades,
                    [entry_time  |-> position.entry_time,
                     exit_time   |-> timestamp,
                     direction   |-> position.direction,
                     entry_price |-> position.entry_price,
                     exit_price  |-> price,
                     quantity    |-> quantity,
                     pnl         |-> pnl,
                     pnl_percent |-> pnl_percent,
                     stop_loss   |-> position.stop_loss,
                     take_profit |-> position.take_profit,
                     exit_reason |-> reason,
                     confidence  |-> position.confidence,
                     atr         |-> position.atr,
                     duration_minutes |-> timestamp - position.entry_time])


(***************************************************************************)
(* calculate_results                                                       *)
(***************************************************************************)
IsWin(t) == QGt(t.pnl, QI(0))

IsLoss(t) == QLe(t.pnl, QI(0))

PnlOf(ts) == [i \in 1..Len(ts) |-> ts[i].pnl]

\* np.mean of a non-empty list
Mean(xs) == QDiv(QSum(xs), QI(Len(xs)))

\* abs(sum(win pnl) / sum(loss pnl)) if losing_trades else float('inf')
ProfitFactor(ts) ==
    LET winning_trades == SelectSeq(ts, IsWin)
        losing_trades  == SelectSeq(ts, IsLoss)
    IN  IF losing_trades # <<>>
        THEN QAbs(QDiv(QSum(PnlOf(winning_trades)), QSum(PnlOf(losing_trades))))
        ELSE [n |-> 1, d |-> 0]

\* the drawdown loop over the equity values: <<peak, max_drawdown>> after it
RECURSIVE DrawdownLoop(_, _, _)
DrawdownLoop(values, peak, max_drawdown) ==
    IF values = <<>> THEN <<peak, max_drawdown>>
    ELSE LET value    == Head(values)
             peak1    == IF QGt(value, peak) THEN value ELSE peak
             drawdown == QSub(peak1, value)
             max1     == IF QGt(drawdown, max_drawdown) THEN drawdown ELSE max_drawdown
         IN  DrawdownLoop(Tail(values), peak1, max1)

\* the streak loop: <<max_consecutive_wins, max_consecutive_losses>> after it
RECURSIVE StreakLoop(_, _, _, _, _)
StreakLoop(ts, wins, losses, max_wins, max_losses) ==
    IF ts = <<>> THEN <<max_wins, max_losses>>
    ELSE IF IsWin(Head(ts))
         THEN StreakLoop(Tail(ts), wins + 1, 0, IMax(max_wins, wins + 1), max_losses)
         ELSE StreakLoop(Tail(ts), 0, losses + 1, max_wins, IMax(max_losses, losses + 1))

\* np.mean(returns) / np.std(returns) is irrational in general: the model
\* keeps sign(r) * r^2, which determines r
SharpeOf(mean, var) ==
    IF QGt(var, QI(0))
    THEN QMul(QI(Sign(mean.n)), QDiv(QMul(mean, mean), var))
    ELSE QI(0)

\* np.std(xs) squared, mean being np.mean(xs)
Variance(xs, mean) ==
    Mean([i \in 1..Len(xs) |-> QMul(QSub(xs[i], mean), QSub(xs[i], mean))])

SharpeOfReturns(returns, mean) == SharpeOf(mean, Variance(returns, mean))

SharpeRatio(ts) ==
    IF Len(ts) > 1
    THEN SharpeOfReturns([i \in 1..Len(ts) |-> ts[i].pnl_percent],
                         Mean([i \in 1..Len(ts) |-> ts[i].pnl_percent]))
    ELSE QI(0)

\* a zero-trade summary whose profit factor is the general branch's
\* float('inf') for "no losing trades"
ZeroResultsInfProfitFactor ==
    [initial_capital |-> initial_capital,
     final_capital   |-> current_capital,
     total_return    |-> QI(0),
     total_return_percent |-> QI(0),
     max_drawdown    |-> QI(0),
     max_drawdown_percent |-> QI(0),
     total_trades    |-> 0,
     winning_trades  |-> 0,
     losing_trades   |-> 0,
     win_rate        |-> QI(0),
     avg_win         |-> QI(0),
     avg_loss        |-> QI(0),
     profit_factor   |-> [n |-> 1, d |-> 0],
     sharpe_ratio    |-> QI(0),
     max_consecutive_wins   |-> 0,
     max_consecutive_losses |-> 0,
     avg_trade_duration |-> QI(0),
     trades          |-> <<>>]

ZeroResults ==
    [initial_capital |-> initial_capital,
     final_capital   |-> current_capital,
     total_return    |-> QI(0),
     total_return_percent |-> QI(0),
     max_drawdown    |-> QI(0),
     max_drawdown_percent |-> QI(0),
     total_trades    |-> 0,
     winning_trades  |-> 0,
     losing_trades   |-> 0,
     win_rate        |-> QI(0),
     avg_win         |-> QI(0),
     avg_loss        |-> QI(0),
     profit_factor   |-> QI(0),
     sharpe_ratio    |-> QI(0),
     max_consecutive_wins   |-> 0,
     max_consecutive_losses |-> 0,
     avg_trade_duration |-> QI(0),
     trades          |-> <<>>]

\* start_date and end_date, which the function only passes through, are
\* left out
calculate_results ==
    IF trades = <<>> THEN ZeroResults
    ELSE LET total_return   == QSub(current_capital, initial_capital)
             winning_trades == SelectSeq(trades, IsWin)
             losing_trades  == SelectSeq(trades, IsLoss)
             equity_values  == [i \in 1..Len(equity_curve) |->
                                    equity_curve[i].portfolio_value]
             dd      == DrawdownLoop(equity_values, equity_values[1], QI(0))
             streaks == StreakLoop(trades, 0, 0, 0, 0)
         IN  [initial_capital |-> initial_capital,
              final_capital   |-> current_capital,
              total_return    |-> total_return,
              total_return_percent |->
                  QMul(QDiv(total_return, initial_capital), QI(100)),
              max_drawdown    |-> dd[2],
              max_drawdown_percent |->
                  IF QGt(dd[1], QI(0))
                  THEN QMul(QDiv(dd[2], dd[1]), QI(100))
                  ELSE QI(0),
              total_trades    |-> Len(trades),
              winning_trades  |-> Len(winning_trades),
              losing_trades   |-> Len(losing_trades),
              win_rate        |-> QMul(Q(Len(winning_trades), Len(trades)), QI(100)),
              avg_win         |-> IF winning_trades # <<>>
                                  THEN Mean(PnlOf(winning_trades)) ELSE QI(0),
              avg_loss        |-> IF losing_trades # <<>>
                                  THEN Mean(PnlOf(losing_trades)) ELSE QI(0),
              profit_factor   |-> ProfitFactor(trades),
              sharpe_ratio    |-> SharpeRatio(trades),
              max_consecutive_wins   |-> streaks[1],
              max_consecutive_losses |-> streaks[2],
              avg_trade_duration |->
                  Mean([i \in 1..Len(trades) |-> QI(trades[i].duration_minutes)]),
              trades          |-> trades]


(***************************************************************************)
(* The inputs of a run: the bars of the DataFrame after the warm-up.  A    *)
(* bar is its timestamp's distance from the previous bar, its close, and   *)
(* what the (pure) strategy.get_signal returns on the data up to it.       *)
(***************************************************************************)
Prices == {QI(190), QI(200), QI(210)}

\* what strategy.get_signal returns on a bar, and the minutes since the
\* previous bar: within the day, or (gap 1080) on the first bar of the next
\* day
SignalChoices ==
    {[gap |-> 60,   signal |-> "HOLD", confidence |-> QI(0),    atr |-> QI(2)],
     [gap |-> 60,   signal |-> "BUY",  confidence |-> Q(8, 10), atr |-> QI(2)],
     [gap |-> 60,   signal |-> "SELL", confidence |-> Q(8, 10), atr |-> QI(2)],
     [gap |-> 1080, signal |-> "HOLD", confidence |-> QI(0),    atr |-> QI(2)]}

\* a BUY the risk manager rejects (risk 1.8% of the balance)
RejectedBar ==
    [gap |-> 60, close |-> QI(200), signal |-> "BUY",
     confidence |-> Q(8, 10), atr |-> QI(3)]

BarChoices ==
    {[gap |-> sg.gap, close |-> p, signal |-> sg.signal,
      confidence |-> sg.confidence, atr |-> sg.atr] :
        p \in Prices, sg \in SignalChoices} \cup {RejectedBar}

\* the inputs of the two-run specification
TwiceChoices == {b \in BarChoices : b.gap = 60 /\ b.atr = QI(2)}

LastTime == IF data = <<>> THEN 0 ELSE data[Len(data)].time

RiskState ==
    [daily_pnl |-> daily_pnl, max_portfolio_value |-> max_portfolio_value,
     current_drawdown |-> current_drawdown, trade_count_today |-> trade_count_today]

(***************************************************************************)
(* run_backtest                                                            *)
(***************************************************************************)
\* a reset block that leaves self.current_capital as the last run left it
RunStartKeepsCapital ==
    /\ pc = "idle"
    /\ current_capital' = current_capital
    /\ positions' = <<>>
    /\ trades' = <<>>
    /\ equity_curve' = <<>>
    /\ opened' = 0
    /\ data' = <<>>
    /\ start' = [current_capital |-> current_capital', positions |-> positions',
                 trades |-> trades', equity_curve |-> equity_curve',
                 risk |-> RiskState]
    /\ pc' = "loop"
    /\ op' = "run_backtest"
    /\ UNCHANGED <<results, riskVars, consulted, run, prev, callVars, liveVars>>

\* the 'Reset state' block
RunStart ==
    /\ pc = "idle"
    /\ current_capital' = initial_capital
    /\ positions' = <<>>
    /\ trades' = <<>>
    /\ equity_curve' = <<>>
    /\ opened' = 0
    /\ data' = <<>>
    /\ start' = [current_capital |-> current_capital', positions |-> positions',
                 trades |-> trades', equity_curve |-> equity_curve',
                 risk |-> RiskState]
    /\ pc' = "loop"
    /\ op' = "run_backtest"
    /\ UNCHANGED <<results, riskVars, consulted, run, prev, callVars, liveVars>>

\* the head of the loop body on the next bar b: record the equity point
RecordEquity(b) ==
    /\ pc = "loop"
    /\ Len(data) < MaxBars
    /\ run = 2 => /\ Len(data) < Len(prev.data)
                  /\ b = [gap |-> prev.data[Len(data) + 1].time - LastTime,
                          close |-> prev.data[Len(data) + 1].close,
                          signal |-> prev.data[Len(data) + 1].signal,
                          confidence |-> prev.data[Len(data) + 1].confidence,
                          atr |-> prev.data[Len(data) + 1].atr]
    /\ LET current_time  == LastTime + b.gap
           current_price == b.close
       IN  /\ data' = Append(data, [time |-> current_time, close |-> b.close,
                                    signal |-> b.signal, confidence |-> b.confidence,
                                    atr |-> b.atr])
           /\ equity_curve' = Append(equity_curve,
                  [timestamp       |-> current_time,
                   portfolio_value |-> calculate_portfolio_value(current_price),
                   cash            |-> current_capital,
                   unrealized_pnl  |-> calculate_unrealized_pnl(current_price)])
    /\ pc' = "exit"
    /\ op' = "calculate_portfolio_value"
    /\ consulted' = FALSE
    /\ UNCHANGED <<current_capital, positions, trades, results, riskVars,
                   opened, run, start, prev,
                   callVars, liveVars>>

\* check_exit_conditions(current_time, current_price, current_data)
check_exit_conditions ==
    /\ pc = "exit"
    /\ LET bar      == data[Len(data)]
           data_len == WARMUP + Len(data)
       IN  IF positions = <<>>
           THEN UNCHANGED <<positions, current_capital, trades, consulted>>
           ELSE LET exit_reason == ExitReason(positions[1], bar.time, bar.close,
                                              data_len, bar.signal)
                IN  /\ consulted' = ConsultsSignal(positions[1], bar.close, data_len)
                    /\ IF exit_reason # ""
                       THEN close_position(bar.time, bar.close, exit_reason)
                       ELSE UNCHANGED <<positions, current_capital, trades>>
    /\ pc' = "signal"
    /\ op' = "check_exit_conditions"
    /\ UNCHANGED <<equity_curve, results, riskVars, data, opened, run, start, prev,
                   callVars, liveVars>>

\* an entry block that leaves out the 'if len(self.positions) == 0' test
MayEnterAlways == TRUE

\* 'Only enter new positions if no current position'
MayEnter == Len(positions) = 0

\* the 'Generate trading signal' block
GenerateSignal ==
    /\ pc = "signal"
    /\ LET bar == data[Len(data)]
       IN  IF MayEnter /\ bar.signal \in {"BUY", "SELL"}
           THEN /\ process_entry_signal(bar.signal, bar.confidence, bar.atr,
                                        bar.time, bar.close)
                /\ op' = "process_entry_signal"
           ELSE /\ UNCHANGED <<positions, current_capital, opened>>
                /\ op' = "get_signal"
    /\ pc' = "loop"
    /\ UNCHANGED <<trades, equity_curve, results, riskVars, data, consulted,
                   run, start, prev, callVars, liveVars>>

\* a run_backtest that goes to the results with the position still open
CloseRemainingNoClose ==
    /\ pc = "loop"
    /\ run = 2 => Len(data) = Len(prev.data)
    /\ op' = "none"
    /\ pc' = "results"
    /\ UNCHANGED <<positions, current_capital, trades, equity_curve, results,
                   riskVars, data, consulted, opened, run, start, prev, callVars,
                   liveVars>>

\* the 'Close any remaining positions' block, once the bars are exhausted
CloseRemaining ==
    /\ pc = "loop"
    /\ run = 2 => Len(data) = Len(prev.data)
    /\ IF positions # <<>>
       THEN /\ close_position(data[Len(data)].time, data[Len(data)].close,
                              "End of backtest")
            /\ op' = "close_position"
       ELSE /\ UNCHANGED <<positions, current_capital, trades>>
            /\ op' = "none"
    /\ pc' = "results"
    /\ UNCHANGED <<equity_curve, results, riskVars, data, consulted, opened,
                   run, start, prev, callVars, liveVars>>

\* results = self.calculate_results(...); return results
Return ==
    /\ pc = "results"
    /\ results' = calculate_results
    /\ pc' = "done"
    /\ op' = "calculate_results"
    /\ UNCHANGED <<current_capital, positions, trades, equity_curve, riskVars,
                   data, consulted, opened, run, start, prev,
                   callVars, liveVars>>

\* the caller runs run_backtest again on the same engine and the same data
RunAgain ==
    /\ pc = "done"
    /\ run = 1
    /\ prev' = [data |-> data, start |-> start, trades |-> trades,
                equity_curve |-> equity_curve, results |-> results]
    /\ run' = 2
    /\ pc' = "idle"
    /\ op' = "none"
    /\ UNCHANGED <<engineVars, riskVars, data, consulted, opened, start,
                   callVars, liveVars>>

NoResults == [total_trades |-> -1]

\* self.current_position of a bot without a position
FlatPosition ==
    [quantity |-> 0, entry_price |-> QI(0), entry_time |-> -1,
     stop_loss |-> QI(0), take_profit |-> QI(0), pnl |-> QI(0),
     symbol |-> "None", confidence |-> QI(0), atr |-> QI(0)]

NoPrev == [data |-> <<>>]

\* a method that returns nothing, or no call yet
NoReturn == "None"

\* the main thread is inside no method of the bot
NoFrame == [method |-> "None"]

\* BacktestEngine.__init__ and EnhancedRiskManager.__init__
Init ==
    /\ current_capital = account_balance
    /\ positions = <<>>
    /\ trades = <<>>
    /\ equity_curve = <<>>
    /\ results = NoResults
    /\ daily_pnl = QI(0)
    /\ max_portfolio_value = account_balance
    /\ current_drawdown = QI(0)
    /\ trade_count_today = 0
    /\ risk_events = <<>>
    /\ pc = "idle"
    /\ data = <<>>
    /\ consulted = FALSE
    /\ op = "none"
    /\ opened = 0
    /\ run = 1
    /\ start = [current_capital |-> account_balance]
    /\ prev = NoPrev
    /\ calls = <<>>
    /\ returned = NoReturn
    /\ current_position = FlatPosition
    /\ orders = <<>>
    /\ daily_trades = <<>>
    /\ total_pnl = QI(0)
    /\ is_running = FALSE
    /\ clock = 0
    /\ frame = NoFrame

Next ==
    \/ RunStart
    \/ \E b \in BarChoices : RecordEquity(b)
    \/ check_exit_conditions
    \/ GenerateSignal
    \/ CloseRemaining
    \/ Return

Spec == Init /\ [][Next]_vars

NextTwice ==
    \/ RunStart
    \/ \E b \in TwiceChoices : RecordEquity(b)
    \/ check_exit_conditions
    \/ GenerateSignal
    \/ CloseRemaining
    \/ Return
    \/ RunAgain

SpecTwice == Init /\ [][NextTwice]_vars

(***************************************************************************)
(* A client that calls the engine's methods itself, outside run_backtest   *)
(***************************************************************************)
\* the timestamp a client passes with its next call
CallTime == 60 * (Len(calls) + 1)

\* the entry signals a client passes
CallEntries == {b \in BarChoices : b.signal \in {"BUY", "SELL"}}

PortfolioValues == {QI(18000), QI(19000)}

CallReasons == {"Stop Loss", "Manual"}

\* engine.process_entry_signal(signal, signal_data, timestamp, price)
CallProcessEntry(b) ==
    /\ pc = "idle"
    /\ Len(calls) < MaxCalls
    /\ process_entry_signal(b.signal, b.confidence, b.atr, CallTime, b.close)
    /\ calls' = Append(calls, [method |-> "process_entry_signal",
                               timestamp |-> CallTime, price |-> b.close,
                               arg |-> b.signal, signal_data |-> b])
    /\ op' = "process_entry_signal"
    /\ returned' = NoReturn
    /\ UNCHANGED <<trades, equity_curve, results, riskVars, pc, data, consulted,
                   run, start, prev, liveVars>>

\* engine.close_position(timestamp, price, reason)
CallClosePosition(price, reason) ==
    /\ pc = "idle"
    /\ Len(calls) < MaxCalls
    /\ close_position(CallTime, price, reason)
    /\ calls' = Append(calls, [method |-> "close_position",
                               timestamp |-> CallTime, price |-> price,
                               arg |-> reason])
    /\ op' = "close_position"
    /\ returned' = NoReturn
    /\ UNCHANGED <<equity_curve, results, riskVars, pc, data, consulted, opened,
                   run, start, prev, liveVars>>

\* engine.risk_manager.update_drawdown(current_portfolio_value)
CallRiskUpdateDrawdown(current_portfolio_value) ==
    /\ pc = "idle"
    /\ Len(calls) < MaxCalls
    /\ update_drawdown(current_portfolio_value)
    /\ calls' = Append(calls, [method |-> "update_drawdown",
                               arg |-> current_portfolio_value])
    /\ op' = "update_drawdown"
    /\ returned' = NoReturn
    /\ UNCHANGED <<engineVars, pc, data, consulted, opened, run, start, prev,
                   liveVars>>

NextApi ==
    \/ \E b \in CallEntries : CallProcessEntry(b)
    \/ \E price \in Prices, reason \in CallReasons : CallClosePosition(price, reason)
    \/ \E value \in PortfolioValues : CallRiskUpdateDrawdown(value)

SpecApi == Init /\ [][NextApi]_vars


(***************************************************************************)
(* A client that calls the risk manager's methods                          *)
(***************************************************************************)
\* what every such call does besides the method itself: the call is logged
\* with its argument and with what it returned
RiskCall(method, arg, ret) ==
    /\ pc = "idle"
    /\ Len(calls) < MaxRiskCalls
    /\ calls' = Append(calls, [method |-> method, arg |-> arg, ret |-> ret])
    /\ returned' = ret
    /\ op' = method
    /\ UNCHANGED <<engineVars, pc, data, consulted, opened, run, start, prev,
                   liveVars>>

PnlChanges == {QI(-200), QI(300)}

\* proposed trades <<entry_price, quantity, stop_loss>>, assessed on the
\* configured balance
ProposedTrades ==
    {<<QI(200), 10, QI(190)>>, <<QI(200), 60, QI(194)>>, <<QI(200), 20, QI(200)>>}

CallUpdateDailyPnl(pnl_change) ==
    /\ update_daily_pnl(pnl_change)
    /\ RiskCall("update_daily_pnl", pnl_change, NoReturn)

CallUpdateDrawdown(current_portfolio_value) ==
    /\ update_drawdown(current_portfolio_value)
    /\ RiskCall("update_drawdown", current_portfolio_value, NoReturn)

CallIncrementTradeCount ==
    /\ increment_trade_count
    /\ RiskCall("increment_trade_count", NoReturn, NoReturn)

CallResetDailyCounters ==
    /\ reset_daily_counters
    /\ RiskCall("reset_daily_counters", NoReturn, NoReturn)

CallShouldStopTrading ==
    /\ UNCHANGED riskVars
    /\ RiskCall("should_stop_trading", NoReturn, should_stop_trading)

CallLogRiskEvent(event_type) ==
    /\ log_risk_event(event_type)
    /\ RiskCall("log_risk_event", event_type, NoReturn)

CallAssessTradeRisk(trade) ==
    /\ UNCHANGED riskVars
    /\ RiskCall("assess_trade_risk", trade,
                assess_trade_risk(trade[1], trade[2], trade[3], account_balance))

\* EnhancedRiskManager.__init__: the peak starts at the configured balance,
\* or at 10000 under a configuration without one
InitRisk ==
    /\ current_capital = account_balance
    /\ positions = <<>>
    /\ trades = <<>>
    /\ equity_curve = <<>>
    /\ results = NoResults
    /\ daily_pnl = QI(0)
    /\ max_portfolio_value \in {account_balance, QI(10000)}
    /\ current_drawdown = QI(0)
    /\ trade_count_today = 0
    /\ risk_events = <<>>
    /\ pc = "idle"
    /\ data = <<>>
    /\ consulted = FALSE
    /\ op = "none"
    /\ opened = 0
    /\ run = 1
    /\ start = [current_capital |-> account_balance]
    /\ prev = NoPrev
    /\ calls = <<>>
    /\ returned = NoReturn
    /\ current_position = FlatPosition
    /\ orders = <<>>
    /\ daily_trades = <<>>
    /\ total_pnl = QI(0)
    /\ is_running = FALSE
    /\ clock = 0
    /\ frame = NoFrame

NextRisk ==
    \/ \E pnl_change \in PnlChanges : CallUpdateDailyPnl(pnl_change)
    \/ \E value \in PortfolioValues : CallUpdateDrawdown(value)
    \/ CallIncrementTradeCount
    \/ CallResetDailyCounters
    \/ CallShouldStopTrading
    \/ CallLogRiskEvent("LIMIT")
    \/ \E trade \in ProposedTrades : CallAssessTradeRisk(trade)

SpecRisk == InitRisk /\ [][NextRisk]_vars


(***************************************************************************)
(* A client that calls the position sizer once                             *)
(***************************************************************************)
SizerBalances == {QI(100), QI(1000), QI(20000)}

SizerPrices == {Q(1, 2), QI(20), QI(100), QI(200), QI(280), QI(3500)}

SizerAtrs == {QI(0), QI(2), Q(28, 5), QI(5000)}

SizerConfidences == {QI(0), Q(1, 2), Q(8, 10), QI(1)}

\* position_sizer.calculate_position_size(account_balance, current_price,
\* atr_value, signal_confidence, symbol)
CallPositionSize(balance, price, atr_value, confidence, symbol) ==
    /\ pc = "idle"
    /\ calls = <<>>
    /\ \E sizing \in {calculate_position_size(balance, price, atr_value, confidence, symbol)} :
          /\ calls' = <<[method |-> "calculate_position_size",
                         account_balance |-> balance, current_price |-> price,
                         atr_value |-> atr_value, signal_confidence |-> confidence,
                         symbol |-> symbol, ret |-> sizing]>>
          /\ returned' = sizing
    /\ op' = "calculate_position_size"
    /\ UNCHANGED <<engineVars, riskVars, pc, data, consulted, opened, run, start,
                   prev, liveVars>>

\* the leverages get_mis_leverage hands to calculate_minimum_quantity
SizerLeverages == {get_mis_leverage(symbol) : symbol \in Symbols}

\* position_sizer.calculate_minimum_quantity(account_balance, current_price, leverage)
CallMinimumQuantity(balance, price, leverage) ==
    /\ pc = "idle"
    /\ calls = <<>>
    /\ \E quantity \in {calculate_minimum_quantity(balance, price, leverage)} :
          /\ calls' = <<[method |-> "calculate_minimum_quantity",
                         account_balance |-> balance, current_price |-> price,
                         leverage |-> leverage, ret |-> quantity]>>
          /\ returned' = quantity
    /\ op' = "calculate_minimum_quantity"
    /\ UNCHANGED <<engineVars, riskVars, pc, data, consulted, opened, run, start,
                   prev, liveVars>>

NextSizer ==
    \/ \E balance \in SizerBalances, price \in SizerPrices, atr_value \in SizerAtrs :
       \E confidence \in SizerConfidences, symbol \in Symbols :
          CallPositionSize(balance, price, atr_value, confidence, symbol)
    \/ \E balance \in SizerBalances, price \in SizerPrices, leverage \in SizerLeverages :
          CallMinimumQuantity(balance, price, leverage)

SpecSizer == Init /\ [][NextSizer]_vars

(***************************************************************************)
(* enhanced_main.py: the live entry path                                   *)
(***************************************************************************)
\* the instrument the bot trades
trading_symbol == "NIFTYBEES"

\* order_ok: whether executor.place_order returns an order id
handle_entry_signal(signal, confidence, nifty_atr, current_price, symbol, now, order_ok) ==
    \E sizing \in {calculate_position_size(account_balance, current_price,
                                           nifty_atr, confidence, symbol)} :
    \E trading_atr \in {sizing.scaled_atr} :
    \E stop_loss_price \in {IF signal = "BUY"
                            THEN QSub(current_price, QMul(trading_atr, Q(25, 10)))
                            ELSE QAdd(current_price, QMul(trading_atr, Q(25, 10)))} :
    \E risk_assessment \in {assess_trade_risk(current_price, sizing.quantity,
                                              stop_loss_price, account_balance)} :
    \E quantity \in {IF risk_assessment.recommendation = "REDUCE_SIZE"
                     THEN IMax(1, risk_assessment.suggested_quantity)
                     ELSE sizing.quantity} :
    \E take_profit_price \in {IF signal = "BUY"
                              THEN QAdd(current_price, QMul(trading_atr, QI(3)))
                              ELSE QSub(current_price, QMul(trading_atr, QI(3)))} :
        IF risk_assessment.recommendation = "REJECT"
        THEN UNCHANGED <<orders, current_position, trade_count_today>>
        ELSE /\ orders' = Append(orders, [tradingsymbol |-> symbol,
                                          transaction_type |-> signal,
                                          quantity |-> quantity,
                                          placed |-> order_ok])
             /\ IF order_ok
                THEN /\ current_position' =
                            [current_position EXCEPT
                                !.quantity = IF signal = "BUY" THEN quantity
                                                               ELSE -quantity,
                                !.entry_price = current_price,
                                !.entry_time = now,
                                !.stop_loss = stop_loss_price,
                                !.take_profit = take_profit_price,
                                !.symbol = symbol,
                                !.atr = trading_atr,
                                !.confidence = confidence]
                     /\ trade_count_today' = trade_count_today + 1
                ELSE UNCHANGED <<current_position, trade_count_today>>

\* the entry signals both paths are given: a NIFTYBEES price, and an ATR of
\* the traded instrument's size or of the index's
EntryInputs ==
    {[time |-> 60, close |-> p, signal |-> sg, confidence |-> c, atr |-> a] :
        p \in Prices, sg \in {"BUY", "SELL"}, c \in {Q(5, 10), Q(8, 10)},
        a \in {QI(2), QI(3), QI(250), QI(500)}}

\* a fresh engine and a fresh bot with the same configuration, and the signal
\* both are about to be given
InitEntry ==
    /\ current_capital = account_balance
    /\ positions = <<>>
    /\ trades = <<>>
    /\ equity_curve = <<>>
    /\ results = NoResults
    /\ daily_pnl = QI(0)
    /\ max_portfolio_value = account_balance
    /\ current_drawdown = QI(0)
    /\ trade_count_today = 0
    /\ risk_events = <<>>
    /\ pc = "entry"
    /\ \E b \in EntryInputs : data = <<b>>
    /\ consulted = FALSE
    /\ op = "none"
    /\ opened = 0
    /\ run = 1
    /\ start = [current_capital |-> account_balance]
    /\ prev = NoPrev
    /\ calls = <<>>
    /\ returned = NoReturn
    /\ current_position = FlatPosition
    /\ orders = <<>>
    /\ daily_trades = <<>>
    /\ total_pnl = QI(0)
    /\ is_running = FALSE
    /\ clock = 0
    /\ frame = NoFrame

\* the backtest's decision on the signal
BacktestEntry ==
    /\ pc = "entry"
    /\ LET bar == data[1]
       IN  process_entry_signal(bar.signal, bar.confidence, bar.atr, bar.time,
                                bar.close)
    /\ pc' = "entry_live"
    /\ op' = "process_entry_signal"
    /\ UNCHANGED <<trades, equity_curve, results, riskVars, data, consulted,
                   run, start, prev, callVars, liveVars>>

\* the bot's decision on the same signal
LiveEntry(order_ok) ==
    /\ pc = "entry_live"
    /\ current_position.quantity = 0
    /\ LET bar == data[1]
       IN  handle_entry_signal(bar.signal, bar.confidence, bar.atr, bar.close,
                               trading_symbol, bar.time, order_ok)
    /\ pc' = "entry_done"
    /\ op' = "handle_entry_signal"
    /\ UNCHANGED <<engineVars, daily_pnl, max_portfolio_value, current_drawdown,
                   data, consulted, opened, run, start, prev, callVars,
                   risk_events, botVars>>

NextEntry ==
    \/ BacktestEntry
    \/ \E order_ok \in BOOLEAN : LiveEntry(order_ok)

SpecEntry == InitEntry /\ [][NextEntry]_vars


(***************************************************************************)
(* Properties of the engine's methods                                      *)
(***************************************************************************)

\* C2: close_position on an open position removes it, computes pnl as
\* (exit - entry) x |quantity| for a long and (entry - exit) x |quantity|
\* for a short, adds exactly margin_used + pnl to the cash and appends
\* exactly one Trade, whose quantity is |quantity|; with no open position it
\* changes no state.
C2_ClosePosition ==
    [][(Len(calls') = Len(calls) + 1
            /\ calls'[Len(calls')].method = "close_position") =>
        LET c == calls'[Len(calls')]
        IN  IF positions = <<>>
            THEN UNCHANGED <<engineVars, riskVars, opened>>
            ELSE LET p   == positions[1]
                     q   == IF p.quantity < 0 THEN -p.quantity ELSE p.quantity
                     pnl == IF p.quantity > 0
                            THEN QMul(QSub(c.price, p.entry_price), QI(q))
                            ELSE QMul(QSub(p.entry_price, c.price), QI(q))
                     t   == trades'[Len(trades')]
                 IN  /\ positions' = Tail(positions)
                     /\ Len(trades') = Len(trades) + 1
                     /\ SubSeq(trades', 1, Len(trades)) = trades
                     /\ t.quantity = q
                     /\ t.pnl = pnl
                     /\ t.exit_price = c.price
                     /\ t.exit_reason = c.arg
                     /\ current_capital' =
                            QAdd(current_capital, QAdd(p.margin_used, pnl))]_vars

\* a close with no position open, then a short opened and closed at a loss
\* or a gain
C2_Witness ==
    /\ Len(calls) = 3
    /\ calls[1].method = "close_position"
    /\ calls[3].method = "close_position"
    /\ Len(trades) = 1
    /\ trades[1].direction = "SELL"
    /\ trades[1].pnl.n # 0
    /\ positions = <<>>

\* C10: given the same signal, confidence, ATR, price and balance, the
\* backtest's process_entry_signal and the bot's handle_entry_signal make
\* the same decision: both accept or both reject, with the same quantity,
\* stop-loss and take-profit.
C10_SameEntryDecision ==
    pc = "entry_done" =>
        /\ (positions # <<>>) <=> (orders # <<>>)
        /\ (positions # <<>> /\ orders # <<>>) =>
              orders[1].quantity = Abs(positions[1].quantity)
        /\ (positions # <<>> /\ current_position.quantity # 0) =>
              /\ current_position.quantity = positions[1].quantity
              /\ current_position.stop_loss = positions[1].stop_loss
              /\ current_position.take_profit = positions[1].take_profit

(***************************************************************************)
(* Properties of run_backtest                                              *)
(***************************************************************************)

\* C1: during run_backtest at most one position is open at any time, and
\* process_entry_signal is invoked only on a bar where no position is open
\* after that bar's exit check.
C1_SinglePosition ==
    [][/\ Len(positions') <= 1
       /\ (pc = "signal" /\ op' = "process_entry_signal") => positions = <<>>]_vars

\* a position opened on the very bar whose exit check closed the previous one
C1_Witness ==
    /\ op = "process_entry_signal"
    /\ Len(positions) = 1
    /\ trades # <<>>
    /\ trades[Len(trades)].exit_time = positions[1].entry_time

\* C3: check_exit_conditions tests the stop-loss first, the take-profit
\* second and the signal reversal third; the reversal signal is consulted
\* only when neither the stop-loss nor the take-profit fired; a bar's exit
\* check closes at most one position, with one reason.
C3_ExitPriority ==
    [][pc = "exit" =>
        IF positions = <<>>
        THEN trades' = trades /\ ~consulted'
        ELSE LET p    == positions[1]
                 bar  == data[Len(data)]
                 long == p.quantity > 0
                 sl   == IF long THEN QLe(bar.close, p.stop_loss)
                                 ELSE QGe(bar.close, p.stop_loss)
                 tp   == IF long THEN QGe(bar.close, p.take_profit)
                                 ELSE QLe(bar.close, p.take_profit)
                 rev  == \/ long /\ bar.signal = "SELL"
                         \/ ~long /\ bar.signal = "BUY"
                 closed == /\ Len(trades') = Len(trades) + 1
                           /\ SubSeq(trades', 1, Len(trades)) = trades
                           /\ positions' = <<>>
                 reason == trades'[Len(trades')].exit_reason
             IN  /\ closed \/ (trades' = trades /\ positions' = positions)
                 /\ consulted' <=> (~sl /\ ~tp)
                 /\ sl => closed /\ reason = "Stop Loss"
                 /\ (~sl /\ tp) => closed /\ reason = "Take Profit"
                 /\ (~sl /\ ~tp /\ rev) => closed /\ reason = "Signal Reversal"]_vars

\* a take-profit exit on a bar whose signal is also a reversal: the signal
\* was not consulted
C3_Witness ==
    /\ pc = "signal"
    /\ ~consulted
    /\ trades # <<>>
    /\ LET t == trades[Len(trades)]
           bar == data[Len(data)]
       IN  /\ t.exit_time = bar.time
           /\ t.exit_reason = "Take Profit"
           /\ t.direction = "BUY"
           /\ bar.signal = "SELL"

\* C4: a position open for more than 4 hours that hit neither its
\* stop-loss, its take-profit nor a signal reversal is closed by the bar's
\* exit check ('Time Limit'): no position older than 4 hours survives an
\* exit check.
C4_TimeLimitExit ==
    (pc = "signal" /\ positions # <<>>) =>
        data[Len(data)].time - positions[1].entry_time <= TIME_LIMIT

\* C5: with min_hold_time_hours configured, no position is closed with
\* reason 'Signal Reversal' before it has been held that long.
C5_MinHoldBeforeReversal ==
    \A i \in 1..Len(trades) :
        trades[i].exit_reason = "Signal Reversal" =>
            trades[i].exit_time - trades[i].entry_time >= min_hold_time

\* C6: when run_backtest returns no position is open; a position left after
\* the last bar is closed at the last bar's close with reason 'End of
\* backtest'; the number of Trade records equals the number of positions
\* opened.
C6_AllClosedAtReturn ==
    /\ pc \in {"results", "done"} =>
          /\ positions = <<>>
          /\ Len(trades) = opened
    /\ pc = "done" => results.total_trades = opened
    /\ (pc = "results" /\ op = "close_position") =>
          LET t == trades[Len(trades)]
          IN  /\ t.exit_reason = "End of backtest"
              /\ t.exit_price = data[Len(data)].close
              /\ t.exit_time = data[Len(data)].time

\* a run that returned after closing a leftover position, with an earlier
\* trade closed by an exit check
C6_Witness ==
    /\ pc = "done"
    /\ opened >= 2
    /\ Len(trades) = opened
    /\ trades[Len(trades)].exit_reason = "End of backtest"
    /\ trades[1].exit_reason # "End of backtest"

\* C7: a run that produced zero trades returns the all-zero summary (zero
\* returns, zero drawdown, zero counts, rates and ratios) and an empty trade
\* list.
C7_ZeroTradeSummary ==
    (pc = "done" /\ trades = <<>>) =>
        /\ results.initial_capital = initial_capital
        /\ results.final_capital = current_capital
        /\ \A f \in {"total_return", "total_return_percent", "max_drawdown",
                     "max_drawdown_percent", "win_rate", "avg_win", "avg_loss",
                     "profit_factor", "sharpe_ratio", "avg_trade_duration"} :
              results[f] = [n |-> 0, d |-> 1]
        /\ \A f \in {"total_trades", "winning_trades", "losing_trades",
                     "max_consecutive_wins", "max_consecutive_losses"} :
              results[f] = 0
        /\ results.trades = <<>>

\* a run over bars with an entry signal, which the risk manager rejected
C7_Witness ==
    /\ pc = "done"
    /\ trades = <<>>
    /\ \E i \in 1..Len(data) : data[i].signal = "BUY"
    /\ results.total_trades = 0

\* C8: the profit factor is defined for every trade list: +infinity when
\* there is a winning trade and no losing trade, 0 when there are no
\* trades, and |sum of winning pnl / sum of losing pnl| otherwise.
C8_ProfitFactorDefined ==
    pc = "done" =>
        LET pf     == results.profit_factor
            Win(t) == t.pnl.n > 0
            Lose(t) == ~Win(t)
            wins   == SelectSeq(trades, Win)
            losses == SelectSeq(trades, Lose)
            gain   == QAbs(QSum([i \in 1..Len(wins) |-> wins[i].pnl]))
            loss   == QAbs(QSum([i \in 1..Len(losses) |-> losses[i].pnl]))
        IN  IF trades = <<>> THEN pf = [n |-> 0, d |-> 1]
            ELSE IF wins # <<>> /\ losses = <<>> THEN pf = [n |-> 1, d |-> 0]
            ELSE /\ pf.d > 0
                 /\ pf.n >= 0
                 /\ pf.n * loss.n * gain.d = gain.n * pf.d * loss.d

(***************************************************************************)
(* Running run_backtest twice                                              *)
(***************************************************************************)

\* C9: a second run_backtest on the same engine and the same data starts
\* from the same state and yields the same trades, the same equity curve
\* and the same statistics as the first.
C9_RepeatableRun ==
    run = 2 =>
        /\ pc # "idle" => start = prev.start
        /\ pc = "done" => /\ trades = prev.trades
                          /\ equity_curve = prev.equity_curve
                          /\ results = prev.results

\* a second run that returned, after a first run that traded and changed
\* the cash
C9_Witness ==
    /\ run = 2
    /\ pc = "done"
    /\ Len(prev.trades) >= 1
    /\ prev.results.final_capital # initial_capital

(***************************************************************************)
(* Claims about the risk manager                                           *)
(***************************************************************************)
\* C11: assess_trade_risk maps the score to one (risk_level, recommendation)
\* pair: 5 and more HIGH/REJECT, 3 to 4 MEDIUM/REDUCE_SIZE, 1 to 2
\* LOW/PROCEED_CAUTION, 0 MINIMAL/PROCEED; under REDUCE_SIZE the suggested
\* quantity is max(1, min(floor(quantity/2), floor(balance x
\* max_risk_per_trade / risk_per_share))), otherwise it is the proposed
\* quantity.  A trade whose stop is its entry price risks nothing per share,
\* so that the risk limit allows any quantity and the half decides.
C11_ScoreMapping ==
    (calls # <<>> /\ calls[Len(calls)].method = "assess_trade_risk") =>
        \A trade \in {calls[Len(calls)].arg} :
        \A risk_per_share \in {QAbs(QSub(trade[1], trade[3]))} :
        \A half \in {trade[2] \div 2} :
            /\ <<returned.risk_level, returned.recommendation>> =
                   IF returned.risk_score >= 5 THEN <<"HIGH", "REJECT">>
                   ELSE IF returned.risk_score >= 3 THEN <<"MEDIUM", "REDUCE_SIZE">>
                   ELSE IF returned.risk_score >= 1 THEN <<"LOW", "PROCEED_CAUTION">>
                   ELSE <<"MINIMAL", "PROCEED">>
            /\ returned.suggested_quantity =
                   IF returned.recommendation # "REDUCE_SIZE"
                   THEN trade[2]
                   ELSE IF QGt(risk_per_share, QI(0))
                   THEN IMax(1, IMin(half,
                            QInt(QDiv(QMul(account_balance, max_risk_per_trade),
                                      risk_per_share))))
                   ELSE IMax(1, half)

\* C12: the risk_score that assess_trade_risk returns is the sum of the fixed
\* points of the breached rules (risk-% 3, oversized position 2, projected
\* daily loss 3, drawdown above 80% of its limit 2, trade count exhausted 2);
\* turning one rule from pass to fail with the others unchanged never
\* decreases the score; and the call changes no state of the risk manager.
C12_ScoreIsSumOfPoints ==
    [][(Len(calls') > Len(calls) /\ calls'[Len(calls')].method = "assess_trade_risk") =>
          \A trade \in {calls'[Len(calls')].arg} :
          \A total_risk \in {QMul(QAbs(QSub(trade[1], trade[3])), QI(trade[2]))} :
              /\ returned'.risk_score =
                     (IF QGt(QDiv(total_risk, account_balance), max_risk_per_trade)
                      THEN 3 ELSE 0)
                     + (IF QGt(QMul(trade[1], QI(trade[2])),
                               QMul(account_balance, max_position_value))
                        THEN 2 ELSE 0)
                     + (IF QGt(QDiv(QAbs(QSub(daily_pnl, total_risk)), account_balance),
                               max_daily_loss)
                        THEN 3 ELSE 0)
                     + (IF QGt(current_drawdown, QMul(max_drawdown_limit, Q(8, 10)))
                        THEN 2 ELSE 0)
                     + (IF trade_count_today >= max_trades_per_day THEN 2 ELSE 0)
              /\ \A a, b, c, d \in BOOLEAN :
                    /\ RulePoints(TRUE, a, b, c, d) >= RulePoints(FALSE, a, b, c, d)
                    /\ RulePoints(a, TRUE, b, c, d) >= RulePoints(a, FALSE, b, c, d)
                    /\ RulePoints(a, b, TRUE, c, d) >= RulePoints(a, b, FALSE, c, d)
                    /\ RulePoints(a, b, c, TRUE, d) >= RulePoints(a, b, c, FALSE, d)
                    /\ RulePoints(a, b, c, d, TRUE) >= RulePoints(a, b, c, d, FALSE)
              /\ UNCHANGED riskVars]_vars

\* a trade that risks too much on too large a position, assessed when the
\* day's trades are used up: three rules are breached
C12_Witness ==
    /\ Len(calls) = MaxRiskCalls
    /\ calls[Len(calls)].method = "assess_trade_risk"
    /\ trade_count_today >= max_trades_per_day
    /\ returned.risk_score = 7

(***************************************************************************)
(* Claims about the entry of the backtest                                  *)
(***************************************************************************)
\* C13: in process_entry_signal, when assess_trade_risk recommends REJECT no
\* position is opened and the cash is unchanged; when it recommends
\* REDUCE_SIZE the position that is opened has |quantity| equal to
\* suggested_quantity, which is at least 1 and at most the quantity that
\* the position sizer proposed.
C13_RejectAndReduce ==
    [][(Len(calls') = Len(calls) + 1
            /\ calls'[Len(calls')].method = "process_entry_signal") =>
        \A b \in {calls'[Len(calls')].signal_data} :
        \A sizing \in {calculate_position_size(current_capital, b.close, b.atr,
                                               b.confidence, SizerDefaultSymbol)} :
        \A risk_assessment \in
               {assess_trade_risk(b.close, sizing.quantity,
                                  IF b.signal = "BUY"
                                  THEN QSub(b.close, QMul(b.atr, QI(2)))
                                  ELSE QAdd(b.close, QMul(b.atr, QI(2))),
                                  current_capital)} :
            /\ risk_assessment.recommendation = "REJECT" =>
                   UNCHANGED <<positions, current_capital>>
            /\ risk_assessment.recommendation = "REDUCE_SIZE" =>
                   /\ risk_assessment.suggested_quantity >= 1
                   /\ risk_assessment.suggested_quantity <= sizing.quantity
                   /\ positions' # positions =>
                          Abs(positions'[Len(positions')].quantity) =
                              risk_assessment.suggested_quantity]_vars

\* after a drawdown of 10% a rejected entry, then an entry of 63 shares
\* that was cut to 31
C13_Witness ==
    /\ Len(calls) = 3
    /\ calls[1].method = "update_drawdown"
    /\ calls[2].method = "process_entry_signal"
    /\ calls[2].signal_data = RejectedBar
    /\ calls[3].method = "process_entry_signal"
    /\ Len(positions) = 1
    /\ Abs(positions[1].quantity) = 31
    /\ current_capital = QSub(initial_capital, positions[1].margin_used)

\* C14: the circuit breaker latches: once should_stop_trading() has returned
\* true, it returns true after any further sequence of update_daily_pnl,
\* update_drawdown and increment_trade_count calls, until
\* reset_daily_counters is called.
C14_BreakerLatches ==
    \A i, j \in 1..Len(calls) :
        (/\ i < j
         /\ calls[i].method = "should_stop_trading"
         /\ calls[i].ret[1]
         /\ calls[j].method = "should_stop_trading"
         /\ \A k \in (i + 1)..(j - 1) :
                calls[k].method \in {"update_daily_pnl", "update_drawdown",
                                     "increment_trade_count"})
        => calls[j].ret[1]

\* C15: on a balance of 10000 with max_daily_loss = 4%, over consecutive
\* update_daily_pnl calls that each record a loss of 200 (2% of the balance),
\* should_stop_trading() is false after the first loss and true after the
\* second, when the cumulative loss equals the limit, not only after the
\* third.
C15_StopsAtSecondLoss ==
    \A j \in 1..Len(calls) :
        (/\ max_portfolio_value = QI(10000)
         /\ calls[j].method = "should_stop_trading"
         /\ \A k \in 1..(j - 1) :
                \/ calls[k].method = "should_stop_trading"
                \/ calls[k].method = "update_daily_pnl" /\ calls[k].arg = QI(-200))
        => calls[j].ret[1] =
               (Cardinality({k \in 1..(j - 1) : calls[k].method = "update_daily_pnl"}) >= 2)

\* C16: over any sequence of update_drawdown calls the peak portfolio value
\* never decreases, and current_drawdown decreases from one call to the next
\* only on a call whose value sets a new peak: a partial recovery below the
\* peak never shrinks the drawdown.
C16_DrawdownHighWater ==
    [][(Len(calls') > Len(calls) /\ calls'[Len(calls')].method = "update_drawdown") =>
          /\ QGe(max_portfolio_value', max_portfolio_value)
          /\ QLt(current_drawdown', current_drawdown) =>
                 QGt(max_portfolio_value', max_portfolio_value)]_vars

\* C17: reset_daily_counters sets the daily P&L and the daily trade count to
\* 0 and leaves the peak portfolio value, the current drawdown and the
\* risk-event log unchanged; assess_trade_risk, update_daily_pnl,
\* update_drawdown, should_stop_trading and log_risk_event leave the trade
\* count as it is, and increment_trade_count raises it by exactly 1.
C17_DailyReset ==
    [][Len(calls') > Len(calls) =>
          \A method \in {calls'[Len(calls')].method} :
              /\ method = "reset_daily_counters" =>
                     /\ daily_pnl' = QI(0)
                     /\ trade_count_today' = 0
                     /\ UNCHANGED <<max_portfolio_value, current_drawdown, risk_events>>
              /\ method = "increment_trade_count" =>
                     trade_count_today' = trade_count_today + 1
              /\ method \in {"assess_trade_risk", "update_daily_pnl", "update_drawdown",
                             "should_stop_trading", "log_risk_event"} =>
                     trade_count_today' = trade_count_today]_vars

\* a reset after a counted trade, a loss and a drawdown of 10%
C17_Witness ==
    /\ Len(calls) = 4
    /\ calls[1].method = "increment_trade_count"
    /\ calls[2].method = "update_daily_pnl"
    /\ calls[3].method = "update_drawdown"
    /\ calls[4].method = "reset_daily_counters"
    /\ daily_pnl = QI(0)
    /\ trade_count_today = 0
    /\ current_drawdown = Q(1, 10)

(***************************************************************************)
(* Claims about the position sizer                                         *)
(***************************************************************************)
\* C18: calculate_position_size never returns a quantity below 1 when
\* price <= balance x 0.9 / leverage, for every balance > 0, price > 0,
\* ATR >= 0 and confidence in [0, 1].
C18_AtLeastOneShare ==
    \A i \in 1..Len(calls) :
        (/\ calls[i].method = "calculate_position_size"
         /\ QGt(calls[i].account_balance, QI(0))
         /\ QGt(calls[i].current_price, QI(0))
         /\ QGe(calls[i].atr_value, QI(0))
         /\ QGe(calls[i].signal_confidence, QI(0))
         /\ QLe(calls[i].signal_confidence, QI(1))
         /\ QLe(calls[i].current_price,
                QDiv(QMul(calls[i].account_balance, Q(9, 10)),
                     get_mis_leverage(calls[i].symbol))))
        => calls[i].ret.quantity >= 1

\* an affordable share whose stop distance alone risks more than
\* max_risk_per_trade allows: the risk constraint gives 0 shares, 1 is returned
C18_Witness ==
    /\ Len(calls) = 1
    /\ calls[1].method = "calculate_position_size"
    /\ calls[1].account_balance = QI(1000)
    /\ calls[1].current_price = QI(200)
    /\ calls[1].symbol = "NIFTYBEES"
    /\ QGt(calls[1].ret.stop_loss_distance, QMul(QI(1000), max_risk_per_trade))
    /\ calls[1].ret.quantity = 1

\* C19: in every result of calculate_position_size margin_required is the
\* returned quantity x price / leverage and trade_value is the returned
\* quantity x price, whichever adjustment (minimum quantity, affordability
\* cap, forced single share) produced the quantity.  The price is the
\* current_price the function sizes with: the price passed in, raised to 1
\* when it is lower.
C19_MarginFromFinalQuantity ==
    \A i \in 1..Len(calls) :
        calls[i].method = "calculate_position_size" =>
            \A sizing \in {calls[i].ret} :
            \A current_price \in {QMax(calls[i].current_price, QI(1))} :
                /\ sizing.margin_required =
                       QDiv(QMul(QI(sizing.quantity), current_price),
                            get_mis_leverage(calls[i].symbol))
                /\ sizing.trade_value = QMul(QI(sizing.quantity), current_price)

\* a share whose margin is above 90% of the balance, returned all the same:
\* the forced single share
C19_Witness ==
    /\ Len(calls) = 1
    /\ calls[1].method = "calculate_position_size"
    /\ calls[1].ret.quantity = 1
    /\ QGt(calls[1].ret.margin_required,
           QMul(QMax(calls[1].account_balance, QI(1000)), Q(9, 10)))

\* C20: for every balance > 0 and price > 0 such that the margin of one
\* share, price / leverage, is at most 90% of that balance,
\* calculate_position_size returns a quantity above 0 and a margin_required
\* that is at most the balance passed in; so it is for balance 20000, price
\* 280, ATR 5.6, confidence 0.8 at leverage 4.
C20_MarginWithinBalance ==
    \A i \in 1..Len(calls) :
        (/\ calls[i].method = "calculate_position_size"
         /\ QGt(calls[i].account_balance, QI(0))
         /\ QGt(calls[i].current_price, QI(0))
         /\ QLe(QDiv(calls[i].current_price, get_mis_leverage(calls[i].symbol)),
                QMul(calls[i].account_balance, Q(9, 10))))
        => /\ calls[i].ret.quantity > 0
           /\ QLe(calls[i].ret.margin_required, calls[i].account_balance)

(***************************************************************************)
(* trading/enhanced_strategy.py: get_signal                                *)
(*                                                                         *)
(* get_signal reads the last row of the DataFrame and the last values of   *)
(* the indicator series; the model's df is a record of exactly these:      *)
(* len (rows), close, supertrend and trend, rsi, macd and macd_signal,     *)
(* volume and avg_volume, recent_highs and recent_lows, and what           *)
(* detect_market_regime measures (vol_current, vol_median, trend_current,  *)
(* price_momentum).  A missing value is NaN.                               *)
(***************************************************************************)
NaN == [n |-> 0, d |-> 0]

\* dict.get(key, default)
Get(dict, key, default) == IF key \in DOMAIN dict THEN dict[key] ELSE default

st_period == 10

rsi_period == 14

rsi_oversold == QI(25)

rsi_overbought == QI(75)

macd_slow == 26

bb_period == 20

volume_period == 20

volume_threshold == QI(2)

regime_filter_enabled == TRUE

\* rows detect_market_regime needs before it classifies
REGIME_ROWS == 50

\* any(skip_conditions)
SkipTrading(volatility, trend_strength, momentum, vol_current, vol_median) ==
    \/ volatility = "HIGH" /\ trend_strength = "WEAK"
    \/ volatility = "HIGH" /\ momentum = "LOW"
    \/ QGt(vol_current, QMul(vol_median, Q(25, 10)))

RegimeOf(volatility, trend_strength, momentum, df) ==
    [volatility |-> volatility, trend_strength |-> trend_strength,
     momentum |-> momentum, vol_current |-> df.vol_current,
     vol_median |-> df.vol_median, trend_position |-> df.trend_current,
     skip_trading |-> SkipTrading(volatility, trend_strength, momentum,
                                  df.vol_current, df.vol_median)]

detect_market_regime(df) ==
    IF df.len < REGIME_ROWS
    THEN [skip_trading |-> FALSE, regime |-> "INSUFFICIENT_DATA"]
    ELSE RegimeOf(IF QGt(df.vol_current, QMul(df.vol_median, Q(18, 10)))
                  THEN "HIGH" ELSE "NORMAL",
                  IF QGt(df.trend_current, Q(75, 100)) \/ QLt(df.trend_current, Q(25, 100))
                  THEN "STRONG" ELSE "WEAK",
                  IF QGt(df.price_momentum, Q(2, 100)) THEN "HIGH" ELSE "LOW",
                  df)

\* the scoring state of get_signal: buy_score, sell_score, confirmations
Scores(buy_score, sell_score, confirmations) ==
    [buy_score |-> buy_score, sell_score |-> sell_score, confirmations |-> confirmations]

\* 1. SuperTrend Analysis (Weight: 3)
ScoreSuperTrend(s, df) ==
    IF IsNaN(df.trend) THEN s
    ELSE IF df.trend = QI(1) /\ QGt(df.close, df.supertrend)
    THEN Scores(s.buy_score + 3, s.sell_score, Append(s.confirmations, "SuperTrend Bullish"))
    ELSE IF df.trend = QI(-1) /\ QLt(df.close, df.supertrend)
    THEN Scores(s.buy_score, s.sell_score + 3, Append(s.confirmations, "SuperTrend Bearish"))
    ELSE s

\* 2. RSI Analysis (Weight: 2)
ScoreRsi(s, df) ==
    IF IsNaN(df.rsi) THEN s
    ELSE IF QLt(df.rsi, rsi_oversold)
    THEN Scores(s.buy_score + 2, s.sell_score, Append(s.confirmations, "RSI Oversold"))
    ELSE IF QGt(df.rsi, rsi_overbought)
    THEN Scores(s.buy_score, s.sell_score + 2, Append(s.confirmations, "RSI Overbought"))
    ELSE IF QLt(rsi_oversold, df.rsi) /\ QLt(df.rsi, QAdd(rsi_oversold, QI(10)))
    THEN Scores(s.buy_score + 1, s.sell_score, Append(s.confirmations, "RSI Bullish Zone"))
    ELSE IF QLt(QSub(rsi_overbought, QI(10)), df.rsi) /\ QLt(df.rsi, rsi_overbought)
    THEN Scores(s.buy_score, s.sell_score + 1, Append(s.confirmations, "RSI Bearish Zone"))
    ELSE s

\* 3. MACD Analysis (Weight: 2)
ScoreMacd(s, df) ==
    IF IsNaN(df.macd) \/ IsNaN(df.macd_signal) THEN s
    ELSE IF QGt(df.macd, df.macd_signal) /\ QGt(QSub(df.macd, df.macd_signal), QI(0))
    THEN Scores(s.buy_score + 2, s.sell_score, Append(s.confirmations, "MACD Bullish"))
    ELSE IF QLt(df.macd, df.macd_signal) /\ QLt(QSub(df.macd, df.macd_signal), QI(0))
    THEN Scores(s.buy_score, s.sell_score + 2, Append(s.confirmations, "MACD Bearish"))
    ELSE s

\* latest_volume / avg_volume if avg_volume > 0 else 1
VolumeRatio(df) ==
    IF QGt(df.avg_volume, QI(0)) THEN QDiv(df.volume, df.avg_volume) ELSE QI(1)

\* 4. Volume Analysis (Weight: 2)
ScoreVolume(s, df) ==
    IF IsNaN(df.volume) \/ IsNaN(df.avg_volume) THEN s
    ELSE IF ~QGt(VolumeRatio(df), volume_threshold) THEN s
    ELSE IF s.buy_score > s.sell_score
    THEN Scores(s.buy_score + 2, s.sell_score, Append(s.confirmations, "High Volume Support"))
    ELSE IF s.sell_score > s.buy_score
    THEN Scores(s.buy_score, s.sell_score + 2, Append(s.confirmations, "High Volume Support"))
    ELSE s

\* 5. Price Action (Weight: 1)
ScorePriceAction(s, df) ==
    IF df.len < 3 THEN s
    ELSE IF QGt(df.close, QMul(df.recent_highs, Q(999, 1000)))
    THEN Scores(s.buy_score + 1, s.sell_score, Append(s.confirmations, "Breaking High"))
    ELSE IF QLt(df.close, QMul(df.recent_lows, Q(1001, 1000)))
    THEN Scores(s.buy_score, s.sell_score + 1, Append(s.confirmations, "Breaking Low"))
    ELSE s

\* the five scoring blocks of get_signal, in their order
ScoreAll(df) ==
    ScorePriceAction(ScoreVolume(ScoreMacd(ScoreRsi(ScoreSuperTrend(
        Scores(0, 0, <<>>), df), df), df), df), df)

\* 1. RSI quality (2 points)
QualityRsi(rsi) ==
    IF QLt(rsi, QI(20)) \/ QGt(rsi, QI(80)) THEN QI(2)
    ELSE IF QLt(rsi, QI(30)) \/ QGt(rsi, QI(70)) THEN QI(1)
    ELSE QI(0)

\* 2. Volume confirmation (2 points)
QualityVolume(volume_ratio) ==
    IF QGt(volume_ratio, Q(25, 10)) THEN QI(2)
    ELSE IF QGt(volume_ratio, QI(2)) THEN Q(3, 2)
    ELSE IF QGt(volume_ratio, Q(3, 2)) THEN QI(1)
    ELSE QI(0)

\* the points of abs(price - supertrend_value) / price
QualityTrendStrength(trend_strength) ==
    IF QGt(trend_strength, Q(3, 100)) THEN QI(3)
    ELSE IF QGt(trend_strength, Q(2, 100)) THEN QI(2)
    ELSE IF QGt(trend_strength, Q(1, 100)) THEN QI(1)
    ELSE QI(0)

\* 3. Trend alignment (3 points); a float is falsy only when it is 0
QualityTrend(price, supertrend_value) ==
    IF price = QI(0) \/ supertrend_value = QI(0) THEN QI(0)
    ELSE QualityTrendStrength(QDiv(QAbs(QSub(price, supertrend_value)), price))

\* 4. MACD confirmation (2 points)
QualityMacd(macd_line, signal_line, histogram) ==
    IF ~QGt(QAbs(histogram), QI(0)) THEN QI(0)
    ELSE IF \/ QGt(macd_line, signal_line) /\ QGt(histogram, QI(0))
            \/ QLt(macd_line, signal_line) /\ QLt(histogram, QI(0))
    THEN QI(2)
    ELSE QI(1)

\* 5. Multiple confirmations bonus (1 point)
QualityConfirmations(confirmations) ==
    IF Len(confirmations) >= 4 THEN QI(1) ELSE QI(0)

\* the points calculate_signal_quality adds up
QualityPoints(df, confirmations) ==
    QSum(<<QualityRsi(df.rsi), QualityVolume(VolumeRatio(df)),
           QualityTrend(df.close, df.supertrend),
           QualityMacd(df.macd, df.macd_signal, QSub(df.macd, df.macd_signal)),
           QualityConfirmations(confirmations)>>)

\* min(1.0, quality_score / max_score)
calculate_signal_quality(df, confirmations) ==
    QMin(QI(1), QDiv(QualityPoints(df, confirmations), QI(10)))

\* Quality-based adjustment without the max(2, ...) of the high-quality step
QualityAdjustedNoFloor(min_confirmations, quality_score) ==
    IF QLt(quality_score, Q(1, 2)) THEN min_confirmations + 1
    ELSE IF QGt(quality_score, Q(8, 10)) THEN min_confirmations - 1
    ELSE min_confirmations

\* Quality-based adjustment of the minimum confirmations
QualityAdjusted(min_confirmations, quality_score) ==
    IF QLt(quality_score, Q(1, 2)) THEN min_confirmations + 1
    ELSE IF QGt(quality_score, Q(8, 10)) THEN IMax(2, min_confirmations - 1)
    ELSE min_confirmations

\* Regime-based adjustment on top of the quality-based one
adjusted_min_confirmations(min_confirmations, quality_score, regime) ==
    IF regime_filter_enabled /\ Get(regime, "volatility", "None") = "HIGH"
    THEN QualityAdjusted(min_confirmations, quality_score) + 1
    ELSE QualityAdjusted(min_confirmations, quality_score)

\* (score / 12) * (1 + quality_score * 0.5) without the cap at 0.95
ConfidenceUncapped(score, quality_score) ==
    QMul(Q(score, 12), QAdd(QI(1), QMul(quality_score, Q(1, 2))))

\* min(0.95, (score / 12) * (1 + quality_score * 0.5))
Confidence(score, quality_score) ==
    QMin(Q(95, 100), QMul(Q(score, 12), QAdd(QI(1), QMul(quality_score, Q(1, 2)))))

\* the signal_data dict get_signal returns after scoring
SignalData(signal, confidence, s, quality_score, adjusted, regime) ==
    [signal |-> signal, confidence |-> confidence, buy_score |-> s.buy_score,
     sell_score |-> s.sell_score, confirmations |-> s.confirmations,
     regime |-> regime, quality_score |-> quality_score,
     adjusted_min_confirmations |-> adjusted]

\* 'Determine signal based on adjusted scores'
Decide(s, quality_score, adjusted, regime) ==
    IF s.buy_score >= adjusted /\ s.buy_score > s.sell_score
    THEN <<"BUY", SignalData("BUY", Confidence(s.buy_score, quality_score),
                             s, quality_score, adjusted, regime)>>
    ELSE IF s.sell_score >= adjusted /\ s.sell_score > s.buy_score
    THEN <<"SELL", SignalData("SELL", Confidence(s.sell_score, quality_score),
                              s, quality_score, adjusted, regime)>>
    ELSE <<"HOLD", SignalData("HOLD", QI(0), s, quality_score, adjusted, regime)>>

\* get_signal from the quality score on
DecideWithQuality(s, quality_score, min_confirmations, regime) ==
    Decide(s, quality_score,
           adjusted_min_confirmations(min_confirmations, quality_score, regime), regime)

\* get_signal from the scoring on
ScoreAndDecide(s, df, min_confirmations, regime) ==
    DecideWithQuality(s, calculate_signal_quality(df, s.confirmations),
                      min_confirmations, regime)

\* max(self.st_period, self.rsi_period, self.macd_slow, self.bb_period, self.volume_period)
min_data_needed ==
    IMax(IMax(IMax(st_period, rsi_period), IMax(macd_slow, bb_period)), volume_period)

\* get_signal past the length check
SignalWithRegime(df, min_confirmations, regime) ==
    IF regime_filter_enabled /\ Get(regime, "skip_trading", FALSE)
    THEN <<"HOLD", [regime |-> regime,
                    reason |-> "Poor market conditions - skipping trade"]>>
    ELSE ScoreAndDecide(ScoreAll(df), df, min_confirmations, regime)

\* strategy.get_signal(df) of a strategy configured with min_confirmations
get_signal(df, min_confirmations) ==
    IF df.len < min_data_needed
    THEN <<"HOLD", [error |-> "Insufficient data"]>>
    ELSE SignalWithRegime(df, min_confirmations,
                          IF regime_filter_enabled THEN detect_market_regime(df)
                          ELSE [regime |-> "FILTER_DISABLED"])

(***************************************************************************)
(* A client that calls strategy.get_signal once                            *)
(***************************************************************************)
\* close of the last row
FrameClose == QI(100)

\* <<trend, supertrend>> of the last row
FrameTrends ==
    {<<NaN, NaN>>, <<QI(1), QI(96)>>, <<QI(1), Q(197, 2)>>, <<QI(1), Q(199, 2)>>,
     <<QI(-1), QI(104)>>, <<QI(-1), Q(203, 2)>>, <<QI(-1), Q(201, 2)>>}

FrameRsis == {NaN, QI(15), QI(28), QI(50), QI(72), QI(85)}

\* <<macd, macd_signal>>
FrameMacds == {<<NaN, NaN>>, <<QI(1), Q(1, 2)>>, <<QI(-1), Q(-1, 2)>>, <<Q(1, 2), Q(1, 2)>>}

\* <<volume, avg_volume>>
FrameVolumes == {<<QI(1000), QI(1000)>>, <<QI(2200), QI(1000)>>, <<QI(3000), QI(1000)>>}

\* <<recent_highs, recent_lows>> of the last three rows
FrameRanges == {<<QI(100), QI(95)>>, <<QI(105), QI(100)>>, <<QI(105), QI(95)>>}

\* <<len, vol_current, vol_median, trend_current, price_momentum>>
FrameRegimes ==
    {<<25, Q(15, 100), Q(15, 100), Q(1, 2), Q(1, 100)>>,
     <<26, Q(15, 100), Q(15, 100), Q(1, 2), Q(1, 100)>>,
     <<60, Q(15, 100), Q(15, 100), Q(1, 2), Q(1, 100)>>,
     <<60, Q(30, 100), Q(15, 100), Q(9, 10), Q(3, 100)>>,
     <<60, Q(30, 100), Q(15, 100), Q(1, 2), Q(3, 100)>>,
     <<60, Q(40, 100), Q(15, 100), Q(9, 10), Q(3, 100)>>}

\* config['min_confirmations'] of the strategy under call
MinConfirmations == {1, 3, 4}

Frame(t, rsi, m, v, r, g) ==
    [len |-> g[1], close |-> FrameClose, trend |-> t[1], supertrend |-> t[2],
     rsi |-> rsi, macd |-> m[1], macd_signal |-> m[2], volume |-> v[1],
     avg_volume |-> v[2], recent_highs |-> r[1], recent_lows |-> r[2],
     vol_current |-> g[2], vol_median |-> g[3], trend_current |-> g[4],
     price_momentum |-> g[5]]

\* signal, signal_data = strategy.get_signal(df)
CallGetSignal(df, min_confirmations) ==
    /\ pc = "idle"
    /\ calls = <<>>
    /\ \E ret \in {get_signal(df, min_confirmations)} :
          /\ calls' = <<[method |-> "get_signal", df |-> df,
                         min_confirmations |-> min_confirmations, ret |-> ret]>>
          /\ returned' = ret
    /\ op' = "get_signal"
    /\ UNCHANGED <<engineVars, riskVars, pc, data, consulted, opened, run, start,
                   prev, liveVars>>

\* one call, on any of the frames
NextSignal ==
    /\ calls = <<>>
    /\ \E t \in FrameTrends, rsi \in FrameRsis, m \in FrameMacds, v \in FrameVolumes :
       \E r \in FrameRanges, g \in FrameRegimes, min_confirmations \in MinConfirmations :
       \E df \in {Frame(t, rsi, m, v, r, g)} :
           CallGetSignal(df, min_confirmations)

SpecSignal == Init /\ [][NextSignal]_vars

\* the get_signal call the client made, and what it returned
SignalCalled == calls # <<>> /\ calls[1].method = "get_signal"

(***************************************************************************)
(* Claims about get_signal                                                 *)
(***************************************************************************)
\* C21: for a window shorter than the required lookback get_signal returns
\* HOLD, and the result it returns carries a confidence of 0.
C21_ShortWindowHoldZero ==
    (SignalCalled /\ calls[1].df.len < min_data_needed)
        => /\ returned[1] = "HOLD"
           /\ "confidence" \in DOMAIN returned[2]
           /\ returned[2].confidence = QI(0)

\* the result went through the scoring of get_signal
Scored == SignalCalled /\ "buy_score" \in DOMAIN returned[2]

\* the decision rules of get_signal on a scored result
DecisionRules ==
    Scored =>
        /\ returned[1] = "BUY" <=>
              /\ returned[2].buy_score >= returned[2].adjusted_min_confirmations
              /\ returned[2].buy_score > returned[2].sell_score
        /\ returned[1] = "SELL" <=>
              /\ returned[2].sell_score >= returned[2].adjusted_min_confirmations
              /\ returned[2].sell_score > returned[2].buy_score
        /\ returned[1] \in {"BUY", "SELL", "HOLD"}
        /\ returned[2].buy_score = returned[2].sell_score => returned[1] = "HOLD"
        /\ returned[1] = "HOLD" => returned[2].confidence = QI(0)

\* C22: get_signal returns BUY only if buy_score >= the adjusted threshold
\* and buy_score > sell_score, SELL only in the mirrored case, HOLD in every
\* other case (equal scores included), and every HOLD it returns carries
\* confidence 0 in its result.
C22_DecisionAndHoldZero ==
    /\ DecisionRules
    /\ (SignalCalled /\ returned[1] = "HOLD")
           => /\ "confidence" \in DOMAIN returned[2]
              /\ returned[2].confidence = QI(0)

\* C23: the threshold get_signal uses is the configured min_confirmations,
\* plus 1 when quality < 0.5, minus 1 when quality > 0.8, with floor 2 (the
\* regime's own adjustment for HIGH volatility aside); for every
\* configuration and every quality it is never below 2.
C23_ThresholdFloorTwo ==
    Scored =>
        /\ returned[2].adjusted_min_confirmations >= 2
        /\ Get(returned[2].regime, "volatility", "None") # "HIGH"
              => returned[2].adjusted_min_confirmations
                   = IMax(2, calls[1].min_confirmations
                             + (IF QLt(returned[2].quality_score, Q(1, 2)) THEN 1
                                ELSE IF QGt(returned[2].quality_score, Q(8, 10)) THEN -1
                                ELSE 0))

\* C23 (amended): the floor of 2 belongs to the high-quality step only.  The
\* threshold is min_confirmations + 1 when quality < 0.5, max(2,
\* min_confirmations - 1) when quality > 0.8 and min_confirmations otherwise,
\* plus 1 when the regime's volatility is HIGH; it is never below the
\* smaller of min_confirmations and 2.
C23_FloorOnHighQualityOnly ==
    Scored =>
        /\ returned[2].adjusted_min_confirmations >= IMin(2, calls[1].min_confirmations)
        /\ returned[2].adjusted_min_confirmations
              = (IF QLt(returned[2].quality_score, Q(1, 2))
                 THEN calls[1].min_confirmations + 1
                 ELSE IF QGt(returned[2].quality_score, Q(8, 10))
                 THEN (IF calls[1].min_confirmations - 1 < 2 THEN 2
                       ELSE calls[1].min_confirmations - 1)
                 ELSE calls[1].min_confirmations)
                + (IF Get(returned[2].regime, "volatility", "None") = "HIGH" THEN 1 ELSE 0)

\* a high-quality signal under min_confirmations = 1: the floor lifts 0 to 2
C23_Witness ==
    /\ Scored
    /\ calls[1].min_confirmations = 1
    /\ QGt(returned[2].quality_score, Q(8, 10))
    /\ Get(returned[2].regime, "volatility", "None") # "HIGH"
    /\ returned[2].adjusted_min_confirmations = 2

\* C24: for every combination of indicator values the confidence get_signal
\* returns lies in [0, 0.95] and quality_score in [0, 1]; the confidence of
\* a BUY or SELL is min(0.95, (winning score / 12) * (1 + 0.5 * quality)).
C24_ConfidenceAndQualityRange ==
    Scored =>
        /\ QLe(QI(0), returned[2].quality_score) /\ QLe(returned[2].quality_score, QI(1))
        /\ QLe(QI(0), returned[2].confidence) /\ QLe(returned[2].confidence, Q(95, 100))
        /\ \A winning \in {IMax(returned[2].buy_score, returned[2].sell_score)} :
           \A boosted \in {QMul(Q(winning, 12),
                                QAdd(QI(1), QMul(Q(1, 2), returned[2].quality_score)))} :
              returned[1] # "HOLD"
                 => returned[2].confidence
                        = (IF QLt(Q(95, 100), boosted) THEN Q(95, 100) ELSE boosted)

\* a BUY of score 10 at quality 1: 10/12 * 1.5 = 1.25 is capped to 0.95
C24_Witness ==
    /\ Scored
    /\ returned[1] = "BUY"
    /\ returned[2].buy_score = 10
    /\ returned[2].quality_score = QI(1)
    /\ returned[2].confidence = Q(95, 100)

(***************************************************************************)
(* trading/enhanced_strategy.py: calculate_supertrend and calculate_rsi    *)
(*                                                                         *)
(* A DataFrame is a sequence of rows [high, low, close]; row i of the      *)
(* model is df.iloc[i - 1].  A series is a sequence of floats, NaN where   *)
(* pandas has no value.                                                    *)
(***************************************************************************)
\* series.rolling(window).mean() at row i: NaN until the window is full
RollingMean(series, i, window) ==
    IF i < window THEN NaN
    ELSE QDiv(QSum(SubSeq(series, i - window + 1, i)), QI(window))

\* df[['tr1', 'tr2', 'tr3']].max(axis=1); tr2 and tr3 are NaN on the first row
TrueRange(df, i) ==
    IF i = 1 THEN QSub(df[i].high, df[i].low)
    ELSE QMax(QSub(df[i].high, df[i].low),
              QMax(QAbs(QSub(df[i].high, df[i - 1].close)),
                   QAbs(QSub(df[i].low, df[i - 1].close))))

\* df['tr']
TrSeries(df) == [i \in 1..Len(df) |-> TrueRange(df, i)]

\* df['atr'] = df['tr'].rolling(window=self.st_period).mean()
AtrSeries(tr, period) == [i \in 1..Len(tr) |-> RollingMean(tr, i, period)]

\* df['basic_ub'] = (high + low) / 2 + st_factor * atr
BasicUb(df, atr, factor) ==
    [i \in 1..Len(df) |->
        QAdd(QDiv(QAdd(df[i].high, df[i].low), QI(2)), QMul(factor, atr[i]))]

\* df['basic_lb'] = (high + low) / 2 - st_factor * atr
BasicLb(df, atr, factor) ==
    [i \in 1..Len(df) |->
        QSub(QDiv(QAdd(df[i].high, df[i].low), QI(2)), QMul(factor, atr[i]))]

\* the band that ratchets upward although the code ratchets it downward
StepFinalUbUpward(final, df, basic_ub, i) ==
    IF i = 1 \/ IsNaN(basic_ub[i - 1]) THEN Append(final, basic_ub[i])
    ELSE IF QGt(basic_ub[i], final[i - 1]) \/ QGt(df[i - 1].close, final[i - 1])
    THEN Append(final, basic_ub[i])
    ELSE Append(final, final[i - 1])

\* one pass of the final-band loop: final_ub at row i from the rows before
StepFinalUb(final, df, basic_ub, i) ==
    IF i = 1 \/ IsNaN(basic_ub[i - 1]) THEN Append(final, basic_ub[i])
    ELSE IF QLt(basic_ub[i], final[i - 1]) \/ QGt(df[i - 1].close, final[i - 1])
    THEN Append(final, basic_ub[i])
    ELSE Append(final, final[i - 1])

\* df['final_ub'] up to row n
RECURSIVE FinalUb(_, _, _)
FinalUb(df, basic_ub, n) ==
    IF n = 0 THEN <<>> ELSE StepFinalUb(FinalUb(df, basic_ub, n - 1), df, basic_ub, n)

\* one pass of the final-band loop: final_lb at row i
StepFinalLb(final, df, basic_ub, basic_lb, i) ==
    IF i = 1 \/ IsNaN(basic_ub[i - 1]) THEN Append(final, basic_lb[i])
    ELSE IF QGt(basic_lb[i], final[i - 1]) \/ QLt(df[i - 1].close, final[i - 1])
    THEN Append(final, basic_lb[i])
    ELSE Append(final, final[i - 1])

\* df['final_lb'] up to row n
RECURSIVE FinalLb(_, _, _, _)
FinalLb(df, basic_ub, basic_lb, n) ==
    IF n = 0 THEN <<>>
    ELSE StepFinalLb(FinalLb(df, basic_ub, basic_lb, n - 1), df, basic_ub, basic_lb, n)

\* the SuperTrend loop that flips down only when the close is below the lower band
StepTrendStrictFlip(st, df, final_ub, final_lb, i) ==
    IF IsNaN(final_ub[i]) \/ IsNaN(final_lb[i]) THEN Append(st, <<NaN, NaN>>)
    ELSE IF i = 1 THEN Append(st, <<final_ub[i], QI(1)>>)
    ELSE IF st[i - 1][2] = QI(1)
    THEN Append(st, <<final_lb[i], QI(1)>>)
    ELSE (IF QGe(df[i].close, final_ub[i]) THEN Append(st, <<final_ub[i], QI(1)>>)
          ELSE Append(st, <<final_ub[i], QI(-1)>>))

\* one pass of the SuperTrend loop: <<supertrend, trend>> at row i
StepTrend(st, df, final_ub, final_lb, i) ==
    IF IsNaN(final_ub[i]) \/ IsNaN(final_lb[i]) THEN Append(st, <<NaN, NaN>>)
    ELSE IF i = 1 THEN Append(st, <<final_ub[i], QI(1)>>)
    ELSE IF st[i - 1][2] = QI(1)
    THEN (IF QLe(df[i].close, final_lb[i]) THEN Append(st, <<final_lb[i], QI(-1)>>)
          ELSE Append(st, <<final_lb[i], QI(1)>>))
    ELSE (IF QGe(df[i].close, final_ub[i]) THEN Append(st, <<final_ub[i], QI(1)>>)
          ELSE Append(st, <<final_ub[i], QI(-1)>>))

\* the rows <<supertrend, trend>> up to row n
RECURSIVE TrendRows(_, _, _, _)
TrendRows(df, final_ub, final_lb, n) ==
    IF n = 0 THEN <<>>
    ELSE StepTrend(TrendRows(df, final_ub, final_lb, n - 1), df, final_ub, final_lb, n)

\* the columns calculate_supertrend leaves in its copy of df
SupertrendColumns(basic_ub, basic_lb, final_ub, final_lb, rows) ==
    [basic_ub |-> basic_ub, basic_lb |-> basic_lb, final_ub |-> final_ub,
     final_lb |-> final_lb,
     supertrend |-> [i \in 1..Len(rows) |-> rows[i][1]],
     trend |-> [i \in 1..Len(rows) |-> rows[i][2]]]

\* calculate_supertrend from the final bands on
SupertrendOfFinal(df, basic_ub, basic_lb, final_ub, final_lb) ==
    SupertrendColumns(basic_ub, basic_lb, final_ub, final_lb,
                      TrendRows(df, final_ub, final_lb, Len(df)))

\* calculate_supertrend from the basic bands on
SupertrendOfBasic(df, basic_ub, basic_lb) ==
    SupertrendOfFinal(df, basic_ub, basic_lb, FinalUb(df, basic_ub, Len(df)),
                      FinalLb(df, basic_ub, basic_lb, Len(df)))

\* calculate_supertrend from the ATR on
SupertrendOfAtr(df, atr, factor) ==
    SupertrendOfBasic(df, BasicUb(df, atr, factor), BasicLb(df, atr, factor))

\* strategy.calculate_supertrend(df) with st_period = period, st_factor = factor:
\* the working columns; the method returns df['supertrend'], df['trend']
calculate_supertrend(df, period, factor) ==
    SupertrendOfAtr(df, AtrSeries(TrSeries(df), period), factor)

\* delta = df['close'].diff()
Delta(df, i) == IF i = 1 THEN NaN ELSE QSub(df[i].close, df[i - 1].close)

\* delta.where(delta > 0, 0)
GainSeries(df) ==
    [i \in 1..Len(df) |-> IF QGt(Delta(df, i), QI(0)) THEN Delta(df, i) ELSE QI(0)]

\* -delta.where(delta < 0, 0)
LossSeries(df) ==
    [i \in 1..Len(df) |-> IF QLt(Delta(df, i), QI(0)) THEN QNeg(Delta(df, i)) ELSE QI(0)]

\* rsi = 100 - (100 / (1 + rs)), rs = gain / loss
RsiOf(gain, loss) ==
    QSub(QI(100), QDiv(QI(100), QAdd(QI(1), QDiv(gain, loss))))

\* the columns of calculate_rsi: rolling gain, rolling loss, rsi
RsiColumns(gains, losses, period) ==
    [gain |-> [i \in 1..Len(gains) |-> RollingMean(gains, i, period)],
     loss |-> [i \in 1..Len(gains) |-> RollingMean(losses, i, period)],
     rsi |-> [i \in 1..Len(gains) |->
                 RsiOf(RollingMean(gains, i, period), RollingMean(losses, i, period))]]

\* strategy.calculate_rsi(df) with rsi_period = period
calculate_rsi(df, period) == RsiColumns(GainSeries(df), LossSeries(df), period)

(***************************************************************************)
(* A client that calls an indicator once on a short DataFrame              *)
(***************************************************************************)
\* the rows a DataFrame is made of: quiet, up by 10, down by 10, no range
IndicatorRows ==
    {[high |-> QI(101), low |-> QI(99), close |-> QI(100)],
     [high |-> QI(112), low |-> QI(108), close |-> QI(110)],
     [high |-> QI(92), low |-> QI(88), close |-> QI(90)],
     [high |-> QI(100), low |-> QI(100), close |-> QI(100)]}

\* the gap-free DataFrames of at most MaxRows rows
IndicatorFrames == UNION {[1..n -> IndicatorRows] : n \in 1..MaxRows}

\* config['supertrend_period'], config['rsi_period']
IndicatorPeriods == {2, 3}

\* config['supertrend_factor']
IndicatorFactors == {QI(1), Q(7, 2)}

\* supertrend, trend = strategy.calculate_supertrend(df)
CallSupertrend(df, period, factor) ==
    /\ pc = "idle"
    /\ \E columns \in {calculate_supertrend(df, period, factor)} :
          /\ calls' = <<[method |-> "calculate_supertrend", df |-> df, period |-> period,
                         factor |-> factor, columns |-> columns,
                         ret |-> <<columns.supertrend, columns.trend>>]>>
          /\ returned' = <<columns.supertrend, columns.trend>>
    /\ op' = "calculate_supertrend"
    /\ UNCHANGED <<engineVars, riskVars, pc, data, consulted, opened, run, start,
                   prev, liveVars>>

\* rsi = strategy.calculate_rsi(df)
CallRsi(df, period) ==
    /\ pc = "idle"
    /\ \E columns \in {calculate_rsi(df, period)} :
          /\ calls' = <<[method |-> "calculate_rsi", df |-> df, period |-> period,
                         columns |-> columns, ret |-> columns.rsi]>>
          /\ returned' = columns.rsi
    /\ op' = "calculate_rsi"
    /\ UNCHANGED <<engineVars, riskVars, pc, data, consulted, opened, run, start,
                   prev, liveVars>>

\* one call, on any of the DataFrames
NextIndicator ==
    /\ calls = <<>>
    /\ \E df \in IndicatorFrames, period \in IndicatorPeriods :
          \/ \E factor \in IndicatorFactors : CallSupertrend(df, period, factor)
          \/ CallRsi(df, period)

SpecIndicator == Init /\ [][NextIndicator]_vars

\* the calculate_supertrend call the client made
SupertrendCalled == calls # <<>> /\ calls[1].method = "calculate_supertrend"

\* the calculate_rsi call the client made
RsiCalled == calls # <<>> /\ calls[1].method = "calculate_rsi"

(***************************************************************************)
(* Claims about the indicators                                             *)
(***************************************************************************)
\* C25: in calculate_supertrend, for every bar i after the first bar with
\* defined bands, final_upper[i] <= final_upper[i-1] unless close[i-1] >
\* final_upper[i-1], and then it is basic_upper[i]; final_lower[i] >=
\* final_lower[i-1] unless close[i-1] < final_lower[i-1], and then it is
\* basic_lower[i].
C25_BandsRatchet ==
    SupertrendCalled =>
        \A i \in 2..Len(calls[1].df) :
            ~IsNaN(calls[1].columns.basic_ub[i - 1]) =>
                /\ IF QGt(calls[1].df[i - 1].close, calls[1].columns.final_ub[i - 1])
                   THEN calls[1].columns.final_ub[i] = calls[1].columns.basic_ub[i]
                   ELSE QLe(calls[1].columns.final_ub[i], calls[1].columns.final_ub[i - 1])
                /\ IF QLt(calls[1].df[i - 1].close, calls[1].columns.final_lb[i - 1])
                   THEN calls[1].columns.final_lb[i] = calls[1].columns.basic_lb[i]
                   ELSE QGe(calls[1].columns.final_lb[i], calls[1].columns.final_lb[i - 1])

\* a close above the upper band is followed by a reset of that band upward
C25_Witness ==
    /\ SupertrendCalled
    /\ \E i \in 2..Len(calls[1].df) :
          /\ ~IsNaN(calls[1].columns.basic_ub[i - 1])
          /\ QGt(calls[1].df[i - 1].close, calls[1].columns.final_ub[i - 1])
          /\ QGt(calls[1].columns.final_ub[i], calls[1].columns.final_ub[i - 1])

\* C26: for every bar at index >= period - 1 of a gap-free series the trend
\* is exactly +1 or -1; it goes from +1 to -1 only on a bar whose close <=
\* that bar's final lower band, from -1 to +1 only on a bar whose close >=
\* that bar's final upper band, does flip on such a bar, and otherwise
\* carries the previous trend.
C26_TrendDefinedAndFlips ==
    SupertrendCalled =>
        \A i \in calls[1].period..Len(calls[1].df) :
            /\ calls[1].columns.trend[i] \in {QI(1), QI(-1)}
            /\ i > calls[1].period =>
                  /\ (calls[1].columns.trend[i - 1] = QI(1)
                      /\ calls[1].columns.trend[i] = QI(-1))
                        => QLe(calls[1].df[i].close, calls[1].columns.final_lb[i])
                  /\ (calls[1].columns.trend[i - 1] = QI(-1)
                      /\ calls[1].columns.trend[i] = QI(1))
                        => QGe(calls[1].df[i].close, calls[1].columns.final_ub[i])
                  /\ (calls[1].columns.trend[i - 1] = QI(1)
                      /\ QLe(calls[1].df[i].close, calls[1].columns.final_lb[i]))
                        => calls[1].columns.trend[i] = QI(-1)
                  /\ (calls[1].columns.trend[i - 1] = QI(-1)
                      /\ QGe(calls[1].df[i].close, calls[1].columns.final_ub[i]))
                        => calls[1].columns.trend[i] = QI(1)
                  /\ (calls[1].columns.trend[i - 1] = QI(1)
                      /\ ~QLe(calls[1].df[i].close, calls[1].columns.final_lb[i]))
                        => calls[1].columns.trend[i] = QI(1)
                  /\ (calls[1].columns.trend[i - 1] = QI(-1)
                      /\ ~QGe(calls[1].df[i].close, calls[1].columns.final_ub[i]))
                        => calls[1].columns.trend[i] = QI(-1)

\* a series whose trend goes up at one bar and down again at the next
C26_Witness ==
    /\ SupertrendCalled
    /\ \E i \in (calls[1].period + 1)..(Len(calls[1].df) - 1) :
          /\ calls[1].columns.trend[i - 1] = QI(-1)
          /\ calls[1].columns.trend[i] = QI(1)
          /\ calls[1].columns.trend[i + 1] = QI(-1)

\* C27: for every bar past the RSI warm-up calculate_rsi yields a defined
\* value in [0, 100], and exactly 100 whenever the trailing average loss is
\* 0, a window with no price change at all (average gain 0 too) included.
C27_RsiDefinedInRange ==
    RsiCalled =>
        \A i \in (calls[1].period + 1)..Len(calls[1].df) :
            /\ ~IsNaN(returned[i])
            /\ QLe(QI(0), returned[i]) /\ QLe(returned[i], QI(100))
            /\ calls[1].columns.loss[i] = QI(0) => returned[i] = QI(100)

(***************************************************************************)
(* enhanced_main.py: the live loop of EnhancedTradingBot                   *)
(*                                                                         *)
(* The loop runs in the main thread; shutdown_handler is installed for     *)
(* SIGINT and SIGTERM and Python runs it in that thread between two        *)
(* bytecodes, wherever the signal finds it.  The statements of             *)
(* handle_entry_signal and execute_exit that follow a placed order are     *)
(* therefore steps of their own; pc is the statement the main thread is    *)
(* at: "loop" (top of the while loop, the sleep included), "entry_placed", *)
(* "entry_updated", "exit_placed", "exit_recorded", "exit_counted",        *)
(* "stopped" (the loop was left) and "exited" (sys.exit).                  *)
(***************************************************************************)
\* number of passes through the live loop in SpecLive, at most
MaxCycles == 3

\* 'Exit after 48 hours max', in minutes
MAX_HOLD == 48 * 60

\* what strategy.get_signal returns to a cycle: <<signal, signal_data>>
LiveSignals ==
    {<<"BUY", [confidence |-> Q(8, 10), quality_score |-> Q(6, 10), atr |-> QI(250)]>>,
     <<"SELL", [confidence |-> Q(8, 10), quality_score |-> Q(6, 10), atr |-> QI(250)]>>,
     <<"HOLD", [confidence |-> QI(0), quality_score |-> Q(3, 10), atr |-> QI(250)]>>}

\* executor.get_latest_price of the traded instrument
LivePrices == {QI(190), QI(200)}

\* minutes between one pass of the loop that finds something to do and the next
LiveSleeps == {60, 49 * 60}

\* the variables of run_backtest, which the bot does not have
backtestVars == <<data, consulted, opened, run, start, prev>>

\* handle_entry_signal up to the order: recommendation, quantity and prices
EntryPlanOf(signal, current_price, sizing, stop_loss_price, risk_assessment) ==
    [recommendation |-> risk_assessment.recommendation,
     quantity |-> IF risk_assessment.recommendation = "REDUCE_SIZE"
                  THEN IMax(1, risk_assessment.suggested_quantity)
                  ELSE sizing.quantity,
     stop_loss |-> stop_loss_price,
     take_profit |-> IF signal = "BUY"
                     THEN QAdd(current_price, QMul(sizing.scaled_atr, QI(3)))
                     ELSE QSub(current_price, QMul(sizing.scaled_atr, QI(3))),
     atr |-> sizing.scaled_atr]

\* handle_entry_signal from the risk assessment on
EntryPlanStop(signal, current_price, sizing, stop_loss_price) ==
    EntryPlanOf(signal, current_price, sizing, stop_loss_price,
                assess_trade_risk(current_price, sizing.quantity, stop_loss_price,
                                  account_balance))

\* handle_entry_signal from the stop loss on
EntryPlanSized(signal, current_price, sizing) ==
    EntryPlanStop(signal, current_price, sizing,
                  IF signal = "BUY"
                  THEN QSub(current_price, QMul(sizing.scaled_atr, Q(25, 10)))
                  ELSE QAdd(current_price, QMul(sizing.scaled_atr, Q(25, 10))))

\* handle_entry_signal up to 'Place order'
EntryPlan(signal, signal_data, current_price, symbol) ==
    EntryPlanSized(signal, current_price,
                   calculate_position_size(account_balance, current_price,
                                           Get(signal_data, "atr", QI(500)),
                                           Get(signal_data, "confidence", Q(1, 2)),
                                           symbol))

\* 'Calculate current P&L' of handle_position_management
PositionPnl(current_price) ==
    IF current_position.quantity > 0
    THEN QMul(QSub(current_price, current_position.entry_price),
              QI(Abs(current_position.quantity)))
    ELSE QMul(QSub(current_position.entry_price, current_price),
              QI(Abs(current_position.quantity)))

\* any(strong_reversal_conditions)
StrongReversal(signal, signal_data) ==
    /\ QGe(QMul(Get(signal_data, "confidence", QI(0)),
                QAdd(QI(1), QMul(Get(signal_data, "quality_score", QI(0)), Q(1, 2)))),
           signal_reversal_threshold)
    /\ \/ current_position.quantity > 0 /\ signal = "SELL"
       \/ current_position.quantity < 0 /\ signal = "BUY"

\* the if/elif chain of handle_position_management: exit_reason, "" for
\* should_exit = False.  Branch 7 (the trailing stop) stands behind the
\* same two tests of position_age as branches 5 and 6.
LiveExitReason(signal, signal_data, current_price, position_age, market_close) ==
    IF current_position.quantity > 0 /\ QLe(current_price, current_position.stop_loss)
    THEN "Stop Loss Hit"
    ELSE IF current_position.quantity < 0 /\ QGe(current_price, current_position.stop_loss)
    THEN "Stop Loss Hit"
    ELSE IF current_position.quantity > 0 /\ QGe(current_price, current_position.take_profit)
    THEN "Take Profit Hit"
    ELSE IF current_position.quantity < 0 /\ QLe(current_price, current_position.take_profit)
    THEN "Take Profit Hit"
    ELSE IF position_age < min_hold_time
    THEN ""
    ELSE IF position_age >= min_hold_time
    THEN (IF StrongReversal(signal, signal_data) THEN "Strong Signal Reversal" ELSE "")
    ELSE IF position_age > MAX_HOLD
    THEN "Maximum Hold Time Exceeded"
    ELSE IF market_close
    THEN "Market Close Approaching"
    ELSE ""

\* the order executor.place_order was handed, and whether it returned an id
LiveOrder(purpose, transaction_type, quantity, order_ok) ==
    [purpose |-> purpose, tradingsymbol |-> trading_symbol,
     transaction_type |-> transaction_type, quantity |-> quantity, placed |-> order_ok]

\* the statement after place_order in a method that proceeds although the order failed
AfterOrderIgnoringFailure(order_ok, placed_pc) == placed_pc

\* 'if order_id:' after place_order; the else branch logs and the method returns
AfterOrder(order_ok, placed_pc) == IF order_ok THEN placed_pc ELSE "loop"

\* trade_record of execute_exit
TradeRecord(reason, current_price) ==
    [entry_time |-> current_position.entry_time, exit_time |-> clock,
     symbol |-> trading_symbol,
     direction |-> IF current_position.quantity > 0 THEN "LONG" ELSE "SHORT",
     quantity |-> Abs(current_position.quantity),
     entry_price |-> current_position.entry_price, exit_price |-> current_price,
     pnl |-> current_position.pnl, exit_reason |-> reason]

\* the live session right before the while loop of run_enhanced_trading
InitLive ==
    /\ current_capital = account_balance
    /\ positions = <<>>
    /\ trades = <<>>
    /\ equity_curve = <<>>
    /\ results = NoResults
    /\ daily_pnl = QI(0)
    /\ max_portfolio_value = account_balance
    /\ current_drawdown = QI(0)
    /\ trade_count_today = 0
    /\ risk_events = <<>>
    /\ pc = "loop"
    /\ data = <<>>
    /\ consulted = FALSE
    /\ op = "none"
    /\ opened = 0
    /\ run = 1
    /\ start = [current_capital |-> account_balance]
    /\ prev = NoPrev
    /\ calls = <<>>
    /\ returned = NoReturn
    /\ current_position = FlatPosition
    /\ orders = <<>>
    /\ daily_trades = <<>>
    /\ total_pnl = QI(0)
    /\ is_running = TRUE
    /\ clock = 0
    /\ frame = NoFrame

\* one pass of the while loop with no position: should_stop_trading, then
\* handle_entry_signal up to the return of place_order; limit is the bound
\* the model puts on the number of passes
CycleFlat(limit, sig, current_price, sleep, order_ok) ==
    /\ pc = "loop"
    /\ is_running
    /\ Len(calls) < limit
    /\ current_position.quantity = 0
    /\ clock' = clock + sleep
    /\ calls' = Append(calls, [method |-> "cycle"])
    /\ \E plan \in {IF sig[1] \in {"BUY", "SELL"} /\ ~should_stop_trading[1]
                    THEN EntryPlan(sig[1], sig[2], current_price, trading_symbol)
                    ELSE [recommendation |-> "None"]} :
          IF should_stop_trading[1]
          THEN /\ pc' = "stopped"
               /\ is_running' = FALSE
               /\ op' = "should_stop_trading"
               /\ returned' = should_stop_trading
               /\ UNCHANGED <<orders, frame>>
          ELSE IF plan.recommendation \in {"None", "REJECT"}
          THEN /\ op' = "cycle"
               /\ returned' = [method |-> "cycle"]
               /\ UNCHANGED <<pc, is_running, orders, frame>>
          ELSE /\ orders' = Append(orders, LiveOrder("entry", sig[1], plan.quantity, order_ok))
               /\ pc' = AfterOrder(order_ok, "entry_placed")
               /\ frame' = IF AfterOrder(order_ok, "entry_placed") = "loop" THEN NoFrame
                           ELSE [method |-> "handle_entry_signal", signal |-> sig[1],
                                 current_price |-> current_price, plan |-> plan,
                                 confidence |-> Get(sig[2], "confidence", QI(0))]
               /\ op' = "handle_entry_signal"
               /\ returned' = [method |-> "handle_entry_signal", order_ok |-> order_ok]
               /\ UNCHANGED is_running
    /\ UNCHANGED <<engineVars, riskVars, backtestVars, current_position,
                   daily_trades, total_pnl>>

\* self.current_position.update({...}) of handle_entry_signal
EntryUpdate ==
    /\ pc = "entry_placed"
    /\ current_position' =
          [current_position EXCEPT
              !.quantity = IF frame.signal = "BUY" THEN frame.plan.quantity
                                                   ELSE -frame.plan.quantity,
              !.entry_price = frame.current_price,
              !.entry_time = clock,
              !.stop_loss = frame.plan.stop_loss,
              !.take_profit = frame.plan.take_profit,
              !.symbol = trading_symbol,
              !.atr = frame.plan.atr,
              !.confidence = frame.confidence]
    /\ pc' = "entry_updated"
    /\ op' = "handle_entry_signal"
    /\ UNCHANGED <<engineVars, riskVars, backtestVars, callVars, orders, botVars>>

\* self.risk_manager.increment_trade_count() of handle_entry_signal, and its return
EntryCount ==
    /\ pc = "entry_updated"
    /\ increment_trade_count
    /\ pc' = "loop"
    /\ frame' = NoFrame
    /\ op' = "increment_trade_count"
    /\ UNCHANGED <<engineVars, backtestVars, callVars, current_position, orders,
                   daily_trades, total_pnl, is_running, clock>>

\* one pass of the while loop with a position: should_stop_trading, then
\* handle_position_management and execute_exit up to the return of place_order
CycleManage(limit, sig, current_price, sleep, order_ok, market_close) ==
    /\ pc = "loop"
    /\ is_running
    /\ Len(calls) < limit
    /\ current_position.quantity # 0
    /\ clock' = clock + sleep
    /\ calls' = Append(calls, [method |-> "cycle"])
    /\ \E position_age \in {clock + sleep - current_position.entry_time} :
       \E exit_reason \in {LiveExitReason(sig[1], sig[2], current_price, position_age,
                                      market_close)} :
          IF should_stop_trading[1]
          THEN /\ pc' = "stopped"
               /\ is_running' = FALSE
               /\ op' = "should_stop_trading"
               /\ returned' = should_stop_trading
               /\ UNCHANGED <<orders, frame, current_position>>
          ELSE /\ current_position' =
                      [current_position EXCEPT !.pnl = PositionPnl(current_price)]
               /\ op' = "handle_position_management"
               /\ returned' = [method |-> "handle_position_management",
                               signal |-> sig[1], current_price |-> current_price,
                               position_age |-> position_age,
                               market_close |-> market_close,
                               exit_reason |-> exit_reason, order_ok |-> order_ok]
               /\ UNCHANGED is_running
               /\ IF exit_reason = ""
                  THEN UNCHANGED <<pc, orders, frame>>
                  ELSE /\ orders' = Append(orders,
                              LiveOrder("exit",
                                        IF current_position.quantity > 0 THEN "SELL" ELSE "BUY",
                                        Abs(current_position.quantity), order_ok))
                       /\ pc' = AfterOrder(order_ok, "exit_placed")
                       /\ frame' = IF AfterOrder(order_ok, "exit_placed") = "loop" THEN NoFrame
                                   ELSE [method |-> "execute_exit", reason |-> exit_reason,
                                         current_price |-> current_price]
    /\ UNCHANGED <<engineVars, riskVars, backtestVars, daily_trades, total_pnl>>

\* self.daily_trades.append(trade_record) of execute_exit
ExitRecord ==
    /\ pc = "exit_placed"
    /\ daily_trades' = Append(daily_trades, TradeRecord(frame.reason, frame.current_price))
    /\ pc' = "exit_recorded"
    /\ op' = "execute_exit"
    /\ UNCHANGED <<engineVars, riskVars, backtestVars, callVars, current_position,
                   orders, total_pnl, is_running, clock, frame>>

\* self.risk_manager.update_daily_pnl(pnl) and self.total_pnl += pnl of execute_exit
ExitPnl ==
    /\ pc = "exit_recorded"
    /\ update_daily_pnl(current_position.pnl)
    /\ total_pnl' = QAdd(total_pnl, current_position.pnl)
    /\ pc' = "exit_counted"
    /\ op' = "update_daily_pnl"
    /\ UNCHANGED <<engineVars, backtestVars, callVars, current_position, orders,
                   daily_trades, is_running, clock, frame>>

\* 'Reset position' of execute_exit, and its return
ExitReset ==
    /\ pc = "exit_counted"
    /\ current_position' = FlatPosition
    /\ pc' = "loop"
    /\ frame' = NoFrame
    /\ op' = "execute_exit"
    /\ UNCHANGED <<engineVars, riskVars, backtestVars, callVars, orders,
                   daily_trades, total_pnl, is_running, clock>>

\* shutdown_handler(signum, frame), run where the signal finds the main
\* thread: is_running = False, execute_exit(price, "System Shutdown") on an
\* open position, sys.exit(0)
shutdown_handler(current_price, order_ok) ==
    /\ pc \notin {"stopped", "exited"}
    /\ is_running
    /\ is_running' = FALSE
    /\ returned' = [method |-> "shutdown_handler", interrupted |-> pc]
    /\ IF current_position.quantity = 0
       THEN UNCHANGED <<orders, daily_trades, daily_pnl, total_pnl, current_position>>
       ELSE /\ orders' = Append(orders,
                   LiveOrder("exit", IF current_position.quantity > 0 THEN "SELL" ELSE "BUY",
                             Abs(current_position.quantity), order_ok))
            /\ IF order_ok
               THEN /\ daily_trades' = Append(daily_trades,
                                              TradeRecord("System Shutdown", current_price))
                    /\ daily_pnl' = QAdd(daily_pnl, current_position.pnl)
                    /\ total_pnl' = QAdd(total_pnl, current_position.pnl)
                    /\ current_position' = FlatPosition
               ELSE UNCHANGED <<daily_trades, daily_pnl, total_pnl, current_position>>
    /\ pc' = "exited"
    /\ op' = "shutdown_handler"
    /\ UNCHANGED <<engineVars, max_portfolio_value, current_drawdown, trade_count_today,
                   risk_events, backtestVars, calls, clock, frame>>

NextLive ==
    \/ \E sig \in LiveSignals, current_price \in LivePrices, sleep \in LiveSleeps :
       \E order_ok \in BOOLEAN :
          \/ CycleFlat(MaxCycles, sig, current_price, sleep, order_ok)
          \/ \E market_close \in BOOLEAN :
                CycleManage(MaxCycles, sig, current_price, sleep, order_ok, market_close)
    \/ EntryUpdate
    \/ EntryCount
    \/ ExitRecord
    \/ ExitPnl
    \/ ExitReset
    \/ \E current_price \in LivePrices, order_ok \in BOOLEAN :
          shutdown_handler(current_price, order_ok)

SpecLive == InitLive /\ [][NextLive]_vars

\* number of passes through the live loop of a whole session, at most
MaxSessionCycles == 6

\* a session that no signal interrupts, whose orders are all accepted, with
\* check_interval an hour and the market away from its close
NextSession ==
    \/ \E sig \in LiveSignals, current_price \in LivePrices :
          \/ CycleFlat(MaxSessionCycles, sig, current_price, 60, TRUE)
          \/ CycleManage(MaxSessionCycles, sig, current_price, 60, TRUE, FALSE)
    \/ EntryUpdate
    \/ EntryCount
    \/ ExitRecord
    \/ ExitPnl
    \/ ExitReset

SpecSession == InitLive /\ [][NextSession]_vars

\* the orders of one purpose that place_order accepted
PlacedOrders(purpose) ==
    {i \in 1..Len(orders) : orders[i].placed /\ orders[i].purpose = purpose}

\* every accepted order has had its effect recorded: an entry is a counted
\* trade, an exit is a trade record, and the position is open exactly when
\* one more entry than exits was accepted
OrdersApplied ==
    /\ Cardinality(PlacedOrders("entry")) = trade_count_today
    /\ Cardinality(PlacedOrders("exit")) = Len(daily_trades)
    /\ IF current_position.quantity # 0
       THEN Cardinality(PlacedOrders("entry")) = Cardinality(PlacedOrders("exit")) + 1
       ELSE Cardinality(PlacedOrders("entry")) = Cardinality(PlacedOrders("exit"))

(***************************************************************************)
(* Claims about the live loop                                              *)
(***************************************************************************)
\* C28: a shutdown takes effect only between two cycles of the live loop,
\* never between the submission of an entry or exit order and the
\* recording of its effect on current_position, the trade count and the
\* daily P&L: no run ends with an accepted order whose effect was not applied.
C28_ShutdownOnlyBetweenCycles ==
    pc = "exited" => (returned.interrupted = "loop" /\ OrdersApplied)

\* C29: in the live loop a failed order leaves the session state as it was
\* and the loop goes on to try again on a later cycle: a failed entry order
\* leaves the position flat and the daily trade count unchanged; a failed
\* exit order leaves the position open with its entry price, stop-loss and
\* take-profit unchanged and adds nothing to the daily P&L or the trade list.
C29_FailedOrderLeavesState ==
    [][(/\ Len(orders') = Len(orders) + 1
        /\ ~orders'[Len(orders')].placed
        /\ op' # "shutdown_handler")
       => /\ pc' = "loop" /\ is_running' /\ frame' = NoFrame
          /\ orders'[Len(orders')].purpose = "entry"
                => /\ current_position'.quantity = 0
                   /\ trade_count_today' = trade_count_today
          /\ orders'[Len(orders')].purpose = "exit"
                => /\ current_position'.quantity = current_position.quantity
                   /\ current_position'.quantity # 0
                   /\ current_position'.entry_price = current_position.entry_price
                   /\ current_position'.stop_loss = current_position.stop_loss
                   /\ current_position'.take_profit = current_position.take_profit
                   /\ daily_pnl' = daily_pnl
                   /\ total_pnl' = total_pnl
                   /\ daily_trades' = daily_trades]_vars

\* an exit order failed in one cycle and was placed again, and accepted, in
\* the next: the position is closed and the trade recorded
C29_Witness ==
    /\ pc = "loop"
    /\ Len(orders) = 3
    /\ orders[2].purpose = "exit" /\ ~orders[2].placed
    /\ orders[3].purpose = "exit" /\ orders[3].placed
    /\ Len(daily_trades) = 1
    /\ current_position.quantity = 0

\* C30: in the live handle_position_management a position older than 48
\* hours on which neither stop-loss nor take-profit nor a strong signal
\* reversal fires in a cycle is exited in that cycle, with the reason
\* 'Maximum Hold Time Exceeded'.
C30_MaxHoldExit ==
    (/\ op = "handle_position_management"
     /\ returned.position_age > MAX_HOLD
     /\ returned.exit_reason \notin {"Stop Loss Hit", "Take Profit Hit",
                                     "Strong Signal Reversal"})
        => /\ returned.exit_reason = "Maximum Hold Time Exceeded"
           /\ orders[Len(orders)].purpose = "exit"

\* C31: in the live handle_position_management, when is_market_close_time()
\* is true and the position has no stop-loss, take-profit or reversal exit
\* in that cycle, the position is exited in that cycle with the reason
\* 'Market Close Approaching'.
C31_MarketCloseExit ==
    (/\ op = "handle_position_management"
     /\ returned.market_close
     /\ returned.exit_reason \notin {"Stop Loss Hit", "Take Profit Hit",
                                     "Strong Signal Reversal"})
        => /\ returned.exit_reason = "Market Close Approaching"
           /\ orders[Len(orders)].purpose = "exit"

(***************************************************************************)
(* Claims about calculate_minimum_quantity                                 *)
(***************************************************************************)
\* C32: calculate_minimum_quantity returns
\* min(max(1, floor(min_trade_value / price)), max_affordable), where
\* min_trade_value is max(0.3% of the balance, 500) and max_affordable is
\* the number of shares whose margin at the given leverage fits in 85% of
\* the balance: whenever that many shares are affordable, the returned
\* quantity is the one whose trade value reaches the minimum trade value.
C32_MinimumViableQuantity ==
    \A i \in 1..Len(calls) :
        calls[i].method = "calculate_minimum_quantity" =>
            \A min_trade_value \in {QMax(QMul(calls[i].account_balance, Q(3, 1000)), QI(500))} :
            \A max_affordable \in {QInt(QDiv(QMul(calls[i].account_balance, Q(85, 100)),
                                             QDiv(calls[i].current_price, calls[i].leverage)))} :
                calls[i].ret = IMin(IMax(1, QInt(QDiv(min_trade_value, calls[i].current_price))),
                                    max_affordable)

(***************************************************************************)
(* Claims about the equity curve, the cash and the results of a run        *)
(***************************************************************************)
\* the portfolio value of the i-th equity point of the run
EquityAt(i) == equity_curve[i].portfolio_value

\* C33: for every equity curve, the max_drawdown that calculate_results
\* reports is the largest peak-to-trough decline, the maximum over j <= k of
\* equity[j] - equity[k], and max_drawdown_percent is that same decline as a
\* percentage of the peak equity[j] from which it fell.
C33_MaxDrawdown ==
    (pc = "done" /\ equity_curve # <<>>) =>
        /\ \A j \in 1..Len(equity_curve), k \in 1..Len(equity_curve) :
              j <= k => QLe(QSub(EquityAt(j), EquityAt(k)), results.max_drawdown)
        /\ \E j \in 1..Len(equity_curve), k \in 1..Len(equity_curve) :
              /\ j <= k
              /\ results.max_drawdown = QSub(EquityAt(j), EquityAt(k))
              /\ results.max_drawdown_percent =
                     QMul(QDiv(results.max_drawdown, EquityAt(j)), QI(100))

\* C34: during run_backtest the risk manager's session state follows the
\* simulation as it does in the live loop: each position opened has
\* incremented the daily trade count and each trade closed has added its
\* P&L to the daily P&L, so that the daily-loss and trade-count rules see
\* the entries and the results of the run.
C34_RiskSessionFollowsBacktest ==
    pc \in {"loop", "exit", "signal", "results", "done"} =>
        /\ trade_count_today = opened
        /\ daily_pnl = QSum(PnlOf(trades))

\* C35: calculate_results never divides by zero: for every non-empty trade
\* list, the lists in which every non-winning trade has a P&L of exactly 0
\* included, the divisor of the profit factor (the sum of the losing
\* trades' P&L, when there are losing trades) is not zero and the profit
\* factor is a finite number, and the P&L percent of every trade is a
\* finite number.
C35_NoDivisionByZero ==
    (pc = "done" /\ trades # <<>>) =>
        /\ results.losing_trades > 0 =>
              /\ QSum(PnlOf(SelectSeq(trades, IsLoss))) # QI(0)
              /\ IsFinite(results.profit_factor)
        /\ \A i \in 1..Len(trades) : IsFinite(trades[i].pnl_percent)

\* C36: cash conservation in the backtest: in every state in which no
\* position is open, current_capital is initial_capital plus the sum of
\* the P&L of all recorded trades; so at the end of a run final_capital -
\* initial_capital is the sum of the trades' P&L, and it is total_return.
C36_CashConservation ==
    /\ positions = <<>> =>
          current_capital = QAdd(initial_capital, QSum(PnlOf(trades)))
    /\ pc = "done" =>
          /\ QSub(results.final_capital, results.initial_capital) = QSum(PnlOf(trades))
          /\ results.total_return = QSum(PnlOf(trades))

\* a run that ended after a winning and a losing trade, whose margins were
\* posted at the entries and returned at the exits
C36_Witness ==
    /\ pc = "done"
    /\ positions = <<>>
    /\ Len(trades) = 2
    /\ QGt(trades[1].pnl, QI(0))
    /\ QLt(trades[2].pnl, QI(0))
    /\ QSum(PnlOf(trades)) # QI(0)
    /\ results.total_return = QSum(PnlOf(trades))

\* C37 (as stated): in the backtest a position is never opened and closed
\* on the same bar: every recorded trade has an exit_time strictly later
\* than its entry_time.
C37_ExitAfterEntry ==
    \A i \in 1..Len(trades) : trades[i].exit_time > trades[i].entry_time

\* C37 (amended): every trade that check_exit_conditions closed has an
\* exit_time strictly later than its entry_time, a position opened on bar i
\* being first evaluated for exit on bar i+1; the only trade with exit_time
\* equal to entry_time is the last one of a run, opened on the last bar and
\* closed on it by 'End of backtest'.
C37_ExitAfterEntryUnlessFinalClose ==
    \A i \in 1..Len(trades) :
        /\ trades[i].exit_time >= trades[i].entry_time
        /\ trades[i].exit_reason # "End of backtest"
              => trades[i].exit_time > trades[i].entry_time
        /\ trades[i].exit_time = trades[i].entry_time
              => /\ i = Len(trades)
                 /\ pc \in {"results", "done"}
                 /\ trades[i].entry_time = LastTime

\* a run with a trade closed by the take-profit on the bar after its entry,
\* and a trade opened on the last bar and closed on it by the final close
C37_Witness ==
    /\ pc = "done"
    /\ Len(trades) = 2
    /\ trades[1].exit_reason = "Take Profit"
    /\ trades[1].exit_time > trades[1].entry_time
    /\ trades[2].exit_reason = "End of backtest"
    /\ trades[2].exit_time = trades[2].entry_time

\* C38: in the live loop every opened position keeps being managed, cycle
\* after cycle, until it is closed: the loop never ends through the circuit
\* breaker (should_stop_trading, the trade-count rule right after the last
\* allowed entry included) while a position is still open.
C38_BreakerLeavesNoOpenPosition ==
    pc = "stopped" => current_position.quantity = 0

(***************************************************************************)
(* Claims about the daily-loss rules                                       *)
(***************************************************************************)
\* C39: the daily-loss rules react to losses only: should_stop_trading does
\* not trip on account of the daily P&L while the daily P&L is not
\* negative, and assess_trade_risk does not add the points of the
\* daily-loss rule when the projected daily result, the daily P&L minus the
\* risk of the trade, is a net profit.
C39_DailyLossOnlyOnLosses ==
    /\ (op = "should_stop_trading" /\ QGe(daily_pnl, QI(0)))
          => returned[2] # "Daily loss limit exceeded"
    /\ op = "assess_trade_risk" =>
          \A trade \in {calls[Len(calls)].arg} :
          \A total_risk \in {QMul(QAbs(QSub(trade[1], trade[3])), QI(trade[2]))} :
              QGt(QSub(daily_pnl, total_risk), QI(0))
                 => returned.risk_score =
                        RulePoints(QGt(QDiv(total_risk, account_balance), max_risk_per_trade),
                                   QGt(QMul(trade[1], QI(trade[2])),
                                       QMul(account_balance, max_position_value)),
                                   FALSE,
                                   QGt(current_drawdown, QMul(max_drawdown_limit, Q(8, 10))),
                                   trade_count_today >= max_trades_per_day)

\* C40: opening a position does not by itself change the portfolio value
\* of the backtest: the equity point recorded on the first bar after an
\* entry is the portfolio value before the entry (the cash before the
\* margin was posted) plus the unrealized P&L of the position at that bar,
\* so that the margin of an open position is no loss in the equity curve.
C40_EntryKeepsPortfolioValue ==
    (/\ pc = "exit"
     /\ positions # <<>>
     /\ Len(data) >= 2
     /\ positions[1].entry_time = data[Len(data) - 1].time)
        => equity_curve[Len(equity_curve)].portfolio_value =
               QAdd(QAdd(current_capital, positions[1].margin_used),
                    calculate_unrealized_pnl(data[Len(data)].close))

====
